---------------------------- MODULE Spec2Model ----------------------------
(***************************************************************************)
(* STRUMPACK: the dense multifrontal driver (FrontalMatrixDense) and the   *)
(* ANN-based HSS kernel compression (HSSMatrix::compress_recursive_ann).   *)
(*                                                                         *)
(* Fronts and HSS nodes are numbered as in a binary heap: node 1 is the    *)
(* root and node n has the children 2n (child 0, left) and 2n+1 (child 1,  *)
(* right); 0 stands for a null child pointer.                              *)
(***************************************************************************)
EXTENDS Integers, Sequences, FiniteSets, TLC

(***************************************************************************)
(* Bounds of the model.                                                    *)
(***************************************************************************)
MaxFronts == 6
MaxCutoff == 2
MaxRootDepth == 1
MaxSep == 1
MaxUpd == 2
MaxN == 3
MaxLeaf == 2
MaxP == 1
MaxRank == 2
MaxPasses == 2
MaxDd == 1
MaxNodes == 5
MaxDim == 4
MaxPivDim == 2
MaxVal == 1
MaxThresh == 2
MaxCerr == 3
MaxAnn == 4
MaxPoint == 4
MaxChunks == 7
MaxRanks == 4
MaxPts == 13
MaxCandPts == 7
MaxCandRanks == 3
MaxIters == 2
MaxDenseDim == 3

VARIABLES
    fronts,     \* the fronts of the elimination tree (heap numbers)
    cutoff,     \* params::task_recursion_cutoff_level
    dsep,       \* dim_sep() of every front
    dupd,       \* dim_upd() of every front
    Iup,        \* upd_to_parent(parent) of every front: 0-based parent indices
    op,         \* the traversal in progress: factor, fwd, bwd, end
    pc,         \* position of every front's call in the current traversal
    td,         \* task_depth the call of the front was given (-1: not called)
    istask,     \* the call of the front runs as an OpenMP task of its own
    ph,         \* the front's own phase of the current traversal has run
    cols,       \* extend-add columns of the child in progress not yet added
    blk,        \* F11_, F12_, F21_, F22_ of every front
    hcall,      \* the number of the compress call in progress
    hannid,     \* the contents of ann and scores: -1 empty, 0 those of
                \* the file found or given, k > 0 the k-th computed, -2
                \* those read from a file of other dimensions
    hprev,      \* the samples and ranks of the last pass, where a pass
                \* reads the ann and scores that one read
    hnodes,     \* the nodes of the HSS tree (heap numbers)
    hrows,      \* rows() = cols() of every HSS node
    hpath,      \* the entry point and branch of the compression
    hopts,      \* the HSSOptions read: p, max_rank, dd, and the ann_number
                \* every call starts from
    hn,         \* K.n()
    hann,       \* ann_number
    hannm,      \* ann.rows()
    hstate,     \* _U_state = _V_state of every node
    hU,         \* _U.cols() = _V.cols() of every node
    hrank,      \* _U_rank = _V_rank of every node
    hB,         \* _B01: its dimensions and the sizes of the index lists read
    hD,         \* the leaf holds its _D
    hw,         \* WorkCompressANN of every node in the pass in progress
    hacc,       \* compute_U_V_bases_ann of the node in this pass: d, rank,
                \* result, and whether the state assignment ran
    hpc,        \* position of every node's compress_recursive_ann call
    hdepth,     \* depth the call of the node was given (-1: not called)
    histask,    \* the call of the node runs as an OpenMP task of its own
    hpasses,    \* compress_recursive_ann passes started
    hctl,       \* position of the compress call
    hfile,      \* the ANN file written to the scratch folder
    tleaf,      \* opts.leaf_size() of the HSSMatrix constructor
    tnodes,     \* rows() and cols() of every node of the matrix constructed
    tch,        \* _ch of every node whose constructor has run
    tstack,     \* the constructor calls to run, the next one first
    pdim,       \* dim_sep() and dim_upd() of the front factor_phase2 runs on
    popts,      \* opts.replace_tiny_pivots() and thresh = eps * A.size()
    pF11,       \* the entries of F11_ once LU has run, real and imaginary part
    ppc,        \* position of the factor_phase2 call
    kin,        \* the KernelType get_name was called with ("none": no call)
    kname,      \* the string get_name returned or the caller supplied
    kres,       \* the KernelType kernel_type returned ("none": no call yet)
    kwarned,    \* the last kernel_type call wrote its message to std::cerr
    kcerr,      \* lines written to std::cerr so far
    kpc,        \* the last call made: start, named, given, typed
    neighbors,  \* choose_best_neighbors_MPI: one column of neighbors and
                \* scores, an id and its score in every row
    new_neighbors,  \* the same column of new_neighbors and new_scores
    cur_neighbors,  \* cur_neighbors and cur_scores, the rows written so far
    r1,         \* the next row of neighbors to read
    r2,         \* the next row of new_neighbors to read
    given,      \* the column of neighbors and scores on entry
    mpc,        \* position in the column: merge, done
    gn,         \* getLeafsRange: n, the number of chunks to hand out
    gp,         \* p, the number of MPI ranks
    range,      \* the range returned to every rank that has called
    jann,       \* construct_projection_tree_MPI: neighbors.rows() of the
                \* caller find_ann_candidates_MPI
    min_leaf_size,  \* the size below which a node is a leaf
    cur_indices,    \* the points, every node's in the node's range
    leaves,     \* the points of the leaves recorded so far, leaf by leaf
    leaf_sizes, \* 0 and the running totals of the sizes of the leaves
    calls,      \* the calls to run, the next one first: start and
                \* cur_node_size
    nranks,     \* find_neighbors_in_tree_MPI: c.size()
    cpc,        \* position of every rank: tree, loop, ar1, ar2, copy, done
    leafRange,  \* leafRange of every rank
    cleaf,      \* the loop variable leaf of every rank
    rank_neighbors, \* neighbors of every rank
    rank_scores,    \* scores of every rank
    local_neighbors_reduced,    \* of every rank
    local_scores_reduced,       \* of every rank
    processed,  \* the leaves every rank has run the loop body on
    sranks,     \* find_approximate_neighbors_MPI: c.size()
    num_iters,  \* the argument num_iters
    draws,      \* what the generator, in the same state on every rank,
                \* gives the k-th check_quality_MPI: whether a sample n is
                \* drawn, and the quality the samples below n give
    spc,        \* position of every rank: cand, ar1, ar2, quality, test,
                \* done
    iter,       \* iter of every rank
    rounds,     \* find_ann_candidates_MPI calls of every rank
    quality,    \* the quality values every rank has computed, in order
    dnodes,     \* rows() and cols() of every node of the matrix dense()
                \* is called on
    ddepth,     \* depth the dense_recursive call of the node was given
    offset,     \* w.offset of the WorkDense of every node
    dpc,        \* position of every node's dense_recursive call: none,
                \* ready, leaf, wait1, wait2, done
    dtask,      \* the tasks of lines 301-363 of every node: none, ready,
                \* run, done
    A,          \* the assignments made to every entry of A, in order: the
                \* node and the block it wrote
    tmpU,       \* w.tmpU of every node: empty, set, clear
    tmpV        \* w.tmpV of every node

mfvars == <<fronts, cutoff, dsep, dupd, Iup, op, pc, td, istask, ph, cols, blk>>

hssvars == <<hcall, hannid, hprev, hnodes, hrows, hpath, hopts, hn, hann,
             hannm, hstate, hU, hrank, hB, hD, hw, hacc, hpc, hdepth, histask,
             hpasses, hctl, hfile>>

treevars == <<tleaf, tnodes, tch, tstack>>

\* the variables an operation of one part leaves alone
pivvars == <<pdim, popts, pF11, ppc>>

kervars == <<kin, kname, kres, kwarned, kcerr, kpc>>

mergevars == <<neighbors, new_neighbors, cur_neighbors, r1, r2, given, mpc>>

\* the neighbour search of clustering/NeighborSearch_MPI.hpp
rangevars == <<gn, gp, range>>

projvars == <<jann, min_leaf_size, cur_indices, leaves, leaf_sizes, calls>>

candvars == <<nranks, cpc, leafRange, cleaf, rank_neighbors, rank_scores,
              local_neighbors_reduced, local_scores_reduced, processed>>

searchvars == <<sranks, num_iters, draws, spc, iter, rounds, quality>>

annvars == <<mergevars, rangevars, projvars, candvars, searchvars>>

\* dense() of src/HSS/HSSMatrix.hpp
densevars == <<dnodes, ddepth, offset, dpc, dtask, A, tmpU, tmpV>>

nonMF == <<hssvars, treevars, pivvars, kervars, annvars, densevars>>

nonHSS == <<mfvars, treevars, pivvars, kervars, annvars, densevars>>

nonTree == <<mfvars, hssvars, pivvars, kervars, annvars, densevars>>

nonPiv == <<mfvars, hssvars, treevars, kervars, annvars, densevars>>

nonKer == <<mfvars, hssvars, treevars, pivvars, annvars, densevars>>

nonAnn == <<mfvars, hssvars, treevars, pivvars, kervars, densevars>>

nonDense == <<mfvars, hssvars, treevars, pivvars, kervars, annvars>>

vars == <<mfvars, hssvars, treevars, pivvars, kervars, annvars, densevars>>

(***************************************************************************)
(* Dense matrices: a function on (0..rows-1) \X (0..cols-1).  A cleared or *)
(* default-constructed matrix has the empty domain.                        *)
(***************************************************************************)
Idx(m, n) == (0 .. m-1) \X (0 .. n-1)

ZeroMatrix(m, n) == [p \in Idx(m, n) |-> 0]

EmptyMatrix == ZeroMatrix(0, 0)

IsEmpty(M) == DOMAIN M = {}

RECURSIVE SumOver(_, _)
SumOver(S, M) ==
    IF S = {} THEN 0
    ELSE LET x == CHOOSE y \in S : TRUE
         IN  M[x] + SumOver(S \ {x}, M)

Pow2(k) == 2 ^ k

(***************************************************************************)
(* The elimination tree.                                                   *)
(***************************************************************************)
Shapes == {S \in SUBSET (1 .. MaxFronts) :
              1 \in S /\ \A f \in S \ {1} : (f \div 2) \in S}

Child(f, k) == IF (2*f + k) \in fronts THEN 2*f + k ELSE 0

lchild(f) == Child(f, 0)

rchild(f) == Child(f, 1)

Children(f) == {Child(f, 0), Child(f, 1)} \ {0}

Parent(f) == f \div 2

\* strictly increasing sequences of length n over 0..t-1
IncSeqs(n, t) == {s \in [1 .. n -> 0 .. t-1] :
                     \A i \in 1 .. n-1 : s[i] < s[i+1]}

\* upd2sep as upd_to_parent returns it: the number of entries of I that
\* lie in the parent's separator
Upd2Sep(I, pdsep) == Cardinality({i \in DOMAIN I : I[i] < pdsep})


(***************************************************************************)
(* Entry values.  The numerical kernels (extract_front, LU, trsm, gemm)    *)
(* are outside the modelled code: the values they produce are kept as      *)
(* distinct symbolic numbers, so that sums of them can be told apart.      *)
(***************************************************************************)
\* entries A.extract_front writes: block b (1 = F11, 2 = F12, 3 = F21)
ExtractedVal(b, r, c) == Pow2(20) * (1 + r + 4*c + 16*b)

ExtractFront(f) ==
    [F11 |-> [p \in Idx(dsep[f], dsep[f]) |-> ExtractedVal(1, p[1], p[2])],
     F12 |-> [p \in Idx(dsep[f], dupd[f]) |-> ExtractedVal(2, p[1], p[2])],
     F21 |-> [p \in Idx(dupd[f], dsep[f]) |-> ExtractedVal(3, p[1], p[2])]]

\* entry (r,c) of the Schur complement gemm leaves in F22_ of front f
SchurVal(f, r, c) == Pow2((((f % 2) * MaxUpd) + r) * MaxUpd + c)

\* an LU-factored or triangular-solved block: other values, same shape
Factored(M) == [p \in DOMAIN M |-> M[p] + Pow2(27)]

(***************************************************************************)
(* FrontalMatrixDense::extend_add_to_dense, one iteration c of the column  *)
(* loop.  pa holds the parent's four blocks, F22c is this front's F22_, I  *)
(* is upd_to_parent; all indices are 0-based as in the code.               *)
(***************************************************************************)
\* M with F22c(r,c) added at (rowOf(r), col) for every r of rows, as the
\* inner loops of the code do one r after the other
AddColumn(M, rows, I, shift, col, F22c, c) ==
    [p \in DOMAIN M |->
        M[p] + SumOver({<<r, c>> : r \in {x \in rows :
                                    I[x+1] - shift = p[1] /\ col = p[2]}},
                       F22c)]

\* faulty variant: an index equal to the parent's dim_sep is taken as a
\* separator index
ExtendAddColumn_TieBreak(pa, F22c, I, pdsep, dupdc, u2s, c) ==
    LET pcol == I[c+1]
    IN  IF pcol <= pdsep
        THEN [pa EXCEPT
                !.F11 = AddColumn(@, 0 .. u2s-1, I, 0, pcol, F22c, c),
                !.F21 = AddColumn(@, u2s .. dupdc-1, I, pdsep, pcol, F22c, c)]
        ELSE [pa EXCEPT
                !.F12 = AddColumn(@, 0 .. u2s-1, I, 0, pcol - pdsep, F22c, c),
                !.F22 = AddColumn(@, u2s .. dupdc-1, I, pdsep, pcol - pdsep,
                                  F22c, c)]

ExtendAddColumn(pa, F22c, I, pdsep, dupdc, u2s, c) ==
    LET pcol == I[c+1]
    IN  IF pcol < pdsep
        THEN [pa EXCEPT
                !.F11 = AddColumn(@, 0 .. u2s-1, I, 0, pcol, F22c, c),
                !.F21 = AddColumn(@, u2s .. dupdc-1, I, pdsep, pcol, F22c, c)]
        ELSE [pa EXCEPT
                !.F12 = AddColumn(@, 0 .. u2s-1, I, 0, pcol - pdsep, F22c, c),
                !.F22 = AddColumn(@, u2s .. dupdc-1, I, pdsep, pcol - pdsep,
                                  F22c, c)]

\* the parent entries iteration c writes: <<block, row, column>>
ColumnWrites(I, pdsep, dupdc, u2s, c) ==
    LET pcol == I[c+1]
    IN  IF pcol < pdsep
        THEN {<<"F11", I[r+1], pcol>> : r \in 0 .. u2s-1}
             \cup {<<"F21", I[r+1] - pdsep, pcol>> : r \in u2s .. dupdc-1}
        ELSE {<<"F12", I[r+1], pcol - pdsep>> : r \in 0 .. u2s-1}
             \cup {<<"F22", I[r+1] - pdsep, pcol - pdsep>> :
                      r \in u2s .. dupdc-1}

\* faulty variant: the work memory is kept
ReleaseWorkMemory_Kept(B) == B

\* faulty variant: the factors are released with the work memory
ReleaseWorkMemory_Factors(B) ==
    [F11 |-> EmptyMatrix, F12 |-> EmptyMatrix,
     F21 |-> EmptyMatrix, F22 |-> EmptyMatrix]

\* release_work_memory
ReleaseWorkMemory(B) == [B EXCEPT !.F22 = EmptyMatrix]

(***************************************************************************)
(* FrontalMatrixDense::factor_phase2 on the blocks B of front f.           *)
(***************************************************************************)
FactorPhase2Blocks(f, B) ==
    IF dsep[f] > 0
    THEN IF dupd[f] > 0
         THEN [F11 |-> Factored(B.F11),
               F12 |-> Factored(B.F12),
               F21 |-> Factored(B.F21),
               F22 |-> [p \in Idx(dupd[f], dupd[f]) |->
                           SchurVal(f, p[1], p[2])]]
         ELSE [B EXCEPT !.F11 = Factored(@)]
    ELSE B

(***************************************************************************)
(* Positions.  A call of a front walks                                     *)
(*   fork0, fork1, wait        children forked as tasks, then taskwait     *)
(*   call0, ret0, call1, ret1  children called one after the other         *)
(*   alloc, ea0, ea1, p1end    rest of factor_phase1                       *)
(*   b1, end                   backward solve: before phase 1 / returned   *)
(***************************************************************************)
\* faulty variant: a call at the cutoff level still forks
RecursionEntry_AtCutoff(depth) == IF depth <= cutoff THEN "fork0" ELSE "call0"

\* first statement of factor_phase1 / fwd_solve_phase1 / bwd_solve_phase2
RecursionEntry(depth) == IF depth < cutoff THEN "fork0" ELSE "call0"

\* fwd_solve_phase1 starts with the forward solves of the children, forked
\* or called like the children's factorizations
FwdSolvePhase1Entry(depth) == RecursionEntry(depth)

\* where a call starts in the traversal in progress
CallEntry(depth) == CASE op = "factor" -> RecursionEntry(depth)
                      [] op = "fwd"    -> FwdSolvePhase1Entry(depth)
                      [] OTHER         -> "b1"

\* the statement after the children's calls
AfterChildren == CASE op = "factor" -> "alloc"
                   [] op = "fwd"    -> "p1end"
                   [] OTHER         -> "end"

\* the call of front c has returned
Returned(c) == IF op = "bwd" THEN pc[c] = "end" ELSE ph[c]

\* faulty variant: no taskwait after the two child tasks
TaskwaitDone_Missing(f) == TRUE

\* #pragma omp taskwait: every child task of the front has completed
TaskwaitDone(f) == \A c \in Children(f) : istask[c] => Returned(c)

\* faulty variant: the region does not wait at its end
ParallelRegionEnd_NoBarrier(f) == TRUE

\* end of the '#pragma omp parallel' region around phase 1 of a call with
\* task_depth == 0: the single thread has finished the phase and every task
\* generated in the region has completed (the region's implicit barrier)
ParallelRegionEnd(f) ==
    pc[f] = "p1end" /\ \A c \in Children(f) : istask[c] => Returned(c)

(***************************************************************************)
(* Initial states: an elimination tree and the arguments of the root call. *)
(* InitShapes: every tree shape, one-variable separators, every front but  *)
(* the root with u update variables mapped to the last indices of its      *)
(* parent.  InitIndexMaps: a root with two leaves, every dimension and     *)
(* every strictly increasing index map within the bounds.                  *)
(***************************************************************************)
NoBlocks == [F11 |-> EmptyMatrix, F12 |-> EmptyMatrix,
             F21 |-> EmptyMatrix, F22 |-> EmptyMatrix]

InitCalls(rootDepth) ==
    /\ op = "factor"
    /\ td = [f \in fronts |-> IF f = 1 THEN rootDepth ELSE -1]
    /\ pc = [f \in fronts |-> IF f = 1 THEN RecursionEntry(rootDepth)
                                       ELSE "idle"]
    /\ istask = [f \in fronts |-> FALSE]
    /\ ph = [f \in fronts |-> FALSE]
    /\ cols = [f \in fronts |-> {}]
    /\ blk = [f \in fronts |-> NoBlocks]

InitShapes ==
    /\ fronts \in Shapes
    /\ cutoff \in 0 .. MaxCutoff
    /\ dsep = [f \in fronts |-> 1]
    /\ \E u \in 0 .. 1 :
          /\ dupd = [f \in fronts |-> IF f = 1 THEN 0 ELSE u]
          /\ Iup = [f \in fronts |->
                      IF f = 1 \/ u = 0 THEN << >>
                      ELSE IF Parent(f) = 1 THEN <<0>> ELSE <<1>>]
    /\ \E rootDepth \in 0 .. MaxRootDepth : InitCalls(rootDepth)

InitIndexMaps ==
    /\ fronts = {1, 2, 3}
    /\ cutoff \in 0 .. 1
    /\ \E s \in 0 .. MaxSep, u \in 0 .. MaxUpd :
          /\ dsep = [f \in fronts |-> IF f = 1 THEN s ELSE 1]
          /\ \E u2 \in 0 .. MaxUpd, u3 \in 0 .. MaxUpd :
                /\ dupd = [f \in fronts |->
                             IF f = 1 THEN u ELSE IF f = 2 THEN u2 ELSE u3]
                /\ \E I2 \in IncSeqs(u2, s + u), I3 \in IncSeqs(u3, s + u) :
                      Iup = [f \in fronts |->
                               IF f = 1 THEN << >>
                               ELSE IF f = 2 THEN I2 ELSE I3]
    /\ InitCalls(0)

InitMF == InitShapes \/ InitIndexMaps

(***************************************************************************)
(* The recursion over the children, shared by factor_phase1,               *)
(* fwd_solve_phase1 and bwd_solve_phase2.                                  *)
(***************************************************************************)
Running == op \in {"factor", "fwd", "bwd"}

StartCall(f, c, depth, task, next) ==
    /\ pc' = [pc EXCEPT ![f] = next, ![c] = CallEntry(depth)]
    /\ td' = [td EXCEPT ![c] = depth]
    /\ istask' = [istask EXCEPT ![c] = task]

\* '#pragma omp task' around the child's call, with task_depth+1
ForkChild(f) ==
    /\ Running
    /\ \E k \in 0 .. 1 :
          /\ pc[f] = (IF k = 0 THEN "fork0" ELSE "fork1")
          /\ LET next == IF k = 0 THEN "fork1" ELSE "wait"
             IN  IF Child(f, k) # 0
                 THEN StartCall(f, Child(f, k), td[f] + 1, TRUE, next)
                 ELSE /\ pc' = [pc EXCEPT ![f] = next]
                      /\ UNCHANGED <<td, istask>>
    /\ UNCHANGED <<nonMF, fronts, cutoff, dsep, dupd, Iup, op, ph, cols, blk>>

Taskwait(f) ==
    /\ Running
    /\ pc[f] = "wait"
    /\ TaskwaitDone(f)
    /\ pc' = [pc EXCEPT ![f] = AfterChildren]
    /\ UNCHANGED <<nonMF, fronts, cutoff, dsep, dupd, Iup, op, td, istask, ph,
                   cols, blk>>

\* the child's call in the calling task, with the same task_depth
CallChild(f) ==
    /\ Running
    /\ \E k \in 0 .. 1 :
          /\ pc[f] = (IF k = 0 THEN "call0" ELSE "call1")
          /\ IF Child(f, k) # 0
             THEN StartCall(f, Child(f, k), td[f], FALSE,
                            IF k = 0 THEN "ret0" ELSE "ret1")
             ELSE /\ pc' = [pc EXCEPT
                              ![f] = IF k = 0 THEN "call1" ELSE AfterChildren]
                  /\ UNCHANGED <<td, istask>>
    /\ UNCHANGED <<nonMF, fronts, cutoff, dsep, dupd, Iup, op, ph, cols, blk>>

ChildReturn(f) ==
    /\ Running
    /\ \E k \in 0 .. 1 :
          /\ pc[f] = (IF k = 0 THEN "ret0" ELSE "ret1")
          /\ Returned(Child(f, k))
          /\ pc' = [pc EXCEPT ![f] = IF k = 0 THEN "call1" ELSE AfterChildren]
    /\ UNCHANGED <<nonMF, fronts, cutoff, dsep, dupd, Iup, op, td, istask, ph,
                   cols, blk>>

(***************************************************************************)
(* FrontalMatrixDense::factor_phase1 after the children's calls.           *)
(***************************************************************************)
\* the columns 0..dim_upd-1 of child k's F22_, still to be added
ChildColumns(f, k) ==
    IF Child(f, k) # 0 THEN 0 .. dupd[Child(f, k)] - 1 ELSE {}

\* the position after the extend-adds of the children before child k
ExtendAddFrom(f, k) ==
    IF k = 0 /\ lchild(f) # 0 THEN "ea0"
    ELSE IF k <= 1 /\ rchild(f) # 0 THEN "ea1"
    ELSE "p1end"

ColumnsFrom(f, k) ==
    IF k = 0 /\ lchild(f) # 0 THEN ChildColumns(f, 0)
    ELSE IF k <= 1 /\ rchild(f) # 0 THEN ChildColumns(f, 1)
    ELSE {}

\* F11_, F12_, F21_ allocated, zeroed and filled by extract_front; F22_
\* allocated and zeroed if there are update variables
AllocateFront(f) ==
    /\ op = "factor"
    /\ pc[f] = "alloc"
    /\ blk' = [blk EXCEPT ![f] =
                 [F11 |-> ExtractFront(f).F11,
                  F12 |-> ExtractFront(f).F12,
                  F21 |-> ExtractFront(f).F21,
                  F22 |-> IF dupd[f] > 0 THEN ZeroMatrix(dupd[f], dupd[f])
                                         ELSE @.F22]]
    /\ pc' = [pc EXCEPT ![f] = ExtendAddFrom(f, 0)]
    /\ cols' = [cols EXCEPT ![f] = ColumnsFrom(f, 0)]
    /\ UNCHANGED <<nonMF, fronts, cutoff, dsep, dupd, Iup, op, td, istask,
                   ph>>

\* the child whose extend-add the front is in
EAChild(f) == IF pc[f] = "ea0" THEN lchild(f) ELSE rchild(f)

\* the column loop is a taskloop when task_depth < the cutoff level;
\* otherwise the columns are added in increasing order
TaskloopColumns(f) ==
    IF td[f] < cutoff THEN cols[f]
    ELSE {c \in cols[f] : \A c2 \in cols[f] : c <= c2}

\* one iteration of the column loop of child->extend_add_to_dense
ExtendAddStep(f) ==
    /\ op = "factor"
    /\ pc[f] \in {"ea0", "ea1"}
    /\ \E c \in TaskloopColumns(f) :
          LET ch == EAChild(f)
          IN  /\ blk' = [blk EXCEPT ![f] =
                           ExtendAddColumn(@, blk[ch].F22, Iup[ch], dsep[f],
                                           dupd[ch],
                                           Upd2Sep(Iup[ch], dsep[f]), c)]
              /\ cols' = [cols EXCEPT ![f] = @ \ {c}]
    /\ UNCHANGED <<nonMF, fronts, cutoff, dsep, dupd, Iup, op, pc, td,
                   istask, ph>>

\* end of child->extend_add_to_dense: release_work_memory(), return
ExtendAddRelease(f) ==
    /\ op = "factor"
    /\ pc[f] \in {"ea0", "ea1"}
    /\ cols[f] = {}
    /\ LET k == IF pc[f] = "ea0" THEN 0 ELSE 1
       IN  /\ blk' = [blk EXCEPT ![EAChild(f)] = ReleaseWorkMemory(@)]
           /\ pc' = [pc EXCEPT ![f] = ExtendAddFrom(f, k + 1)]
           /\ cols' = [cols EXCEPT ![f] = ColumnsFrom(f, k + 1)]
    /\ UNCHANGED <<nonMF, fronts, cutoff, dsep, dupd, Iup, op, td, istask,
                   ph>>

(***************************************************************************)
(* FrontalMatrixDense::multifrontal_factorization: phase 1, then phase 2.  *)
(***************************************************************************)
\* faulty variant: phase 2 does not wait for phase 1
FactorPhase2Ready_Unordered(f) == pc[f] # "idle"

FactorPhase2Ready(f) ==
    /\ pc[f] # "idle"
    /\ IF td[f] = 0 THEN ParallelRegionEnd(f) ELSE pc[f] = "p1end"

FactorPhase2(f) ==
    /\ op = "factor"
    /\ ~ph[f]
    /\ FactorPhase2Ready(f)
    /\ blk' = [blk EXCEPT ![f] = FactorPhase2Blocks(f, @)]
    /\ ph' = [ph EXCEPT ![f] = TRUE]
    /\ UNCHANGED <<nonMF, fronts, cutoff, dsep, dupd, Iup, op, pc, td,
                   istask, cols>>

(***************************************************************************)
(* FrontalMatrixDense::forward_multifrontal_solve: fwd_solve_phase1 (the   *)
(* children), then fwd_solve_phase2 (pivoting, lower-triangular solve,     *)
(* update of bupd).                                                        *)
(***************************************************************************)
FwdPhase2Ready(f) ==
    /\ pc[f] # "idle"
    /\ IF td[f] = 0 THEN ParallelRegionEnd(f) ELSE pc[f] = "p1end"

FwdSolvePhase2(f) ==
    /\ op = "fwd"
    /\ ~ph[f]
    /\ FwdPhase2Ready(f)
    /\ ph' = [ph EXCEPT ![f] = TRUE]
    /\ UNCHANGED <<nonMF, fronts, cutoff, dsep, dupd, Iup, op, pc, td, istask,
                   cols, blk>>

(***************************************************************************)
(* FrontalMatrixDense::backward_multifrontal_solve: bwd_solve_phase1 (the  *)
(* upper-triangular back-substitution), then bwd_solve_phase2 (the         *)
(* children).                                                              *)
(***************************************************************************)
BwdSolvePhase1(f) ==
    /\ op = "bwd"
    /\ pc[f] = "b1"
    /\ ~ph[f]
    /\ ph' = [ph EXCEPT ![f] = TRUE]
    /\ UNCHANGED <<nonMF, fronts, cutoff, dsep, dupd, Iup, op, pc, td, istask,
                   cols, blk>>

\* faulty variant: the children are visited before the back-substitution
BwdPhase2Ready_Unordered(f) == TRUE

BwdPhase2Ready(f) == ph[f]

BwdSolvePhase2(f) ==
    /\ op = "bwd"
    /\ pc[f] = "b1"
    /\ BwdPhase2Ready(f)
    /\ pc' = [pc EXCEPT ![f] = RecursionEntry(td[f])]
    /\ UNCHANGED <<nonMF, fronts, cutoff, dsep, dupd, Iup, op, td, istask, ph,
                   cols, blk>>

(***************************************************************************)
(* The solver: factorization, forward solve, backward solve, each a call   *)
(* on the root front with the same task_depth.                             *)
(***************************************************************************)
RootCall(nextop, entry) ==
    /\ op' = nextop
    /\ pc' = [f \in fronts |-> IF f = 1 THEN entry ELSE "idle"]
    /\ td' = [f \in fronts |-> IF f = 1 THEN td[1] ELSE -1]
    /\ istask' = [f \in fronts |-> FALSE]
    /\ ph' = [f \in fronts |-> FALSE]
    /\ UNCHANGED <<nonMF, fronts, cutoff, dsep, dupd, Iup, cols, blk>>

StartForwardSolve ==
    /\ op = "factor"
    /\ Returned(1)
    /\ pc[1] = "p1end"
    /\ RootCall("fwd", FwdSolvePhase1Entry(td[1]))

StartBackwardSolve ==
    /\ op = "fwd"
    /\ Returned(1)
    /\ pc[1] = "p1end"
    /\ RootCall("bwd", "b1")

SolveReturn ==
    /\ op = "bwd"
    /\ Returned(1)
    /\ op' = "end"
    /\ UNCHANGED <<nonMF, fronts, cutoff, dsep, dupd, Iup, pc, td, istask, ph,
                   cols, blk>>

NextMF ==
    \/ \E f \in fronts : ForkChild(f)
    \/ \E f \in fronts : Taskwait(f)
    \/ \E f \in fronts : CallChild(f)
    \/ \E f \in fronts : ChildReturn(f)
    \/ \E f \in fronts : AllocateFront(f)
    \/ \E f \in fronts : ExtendAddStep(f)
    \/ \E f \in fronts : ExtendAddRelease(f)
    \/ \E f \in fronts : FactorPhase2(f)
    \/ \E f \in fronts : FwdSolvePhase2(f)
    \/ \E f \in fronts : BwdSolvePhase1(f)
    \/ \E f \in fronts : BwdSolvePhase2(f)
    \/ StartForwardSolve
    \/ StartBackwardSolve
    \/ SolveReturn

\* no HSS matrix
\* no HSS matrix under construction
NoTree ==
    tleaf = 0 /\ tnodes = << >> /\ tch = << >> /\ tstack = << >>

\* no kernel type named or parsed
NoKer ==
    /\ kin = "none" /\ kname = "" /\ kres = "none" /\ kwarned = FALSE
    /\ kcerr = 0 /\ kpc = "none"

\* no factor_phase2 call followed entry by entry
NoPiv ==
    /\ pdim = [sep |-> 0, upd |-> 0]
    /\ popts = [replace_tiny_pivots |-> FALSE, thresh |-> 0]
    /\ pF11 = << >> /\ ppc = "none"

NoHSS ==
    /\ hcall = 0 /\ hannid = -1 /\ hprev = << >>
    /\ hnodes = {} /\ hrows = << >> /\ hpath = "none"
    /\ hopts = [p |-> 0, max_rank |-> 0, dd |-> 0, ann_number |-> 0]
    /\ hn = 0 /\ hann = 0 /\ hannm = 0
    /\ hstate = << >> /\ hU = << >> /\ hrank = << >>
    /\ hB = << >> /\ hD = << >> /\ hw = << >> /\ hacc = << >> /\ hpc = << >>
    /\ hdepth = << >> /\ histask = << >> /\ hpasses = 0 /\ hctl = "none"
    /\ hfile = << >>

\* no column being merged
NoMerge ==
    /\ neighbors = << >> /\ new_neighbors = << >> /\ cur_neighbors = << >>
    /\ r1 = 0 /\ r2 = 0 /\ given = << >> /\ mpc = "none"

\* no rank has asked for its range
NoRange == gn = 0 /\ gp = 0 /\ range = << >>

\* no projection tree under construction
NoProj ==
    /\ jann = 0 /\ min_leaf_size = 0 /\ cur_indices = << >>
    /\ leaves = << >> /\ leaf_sizes = << >> /\ calls = << >>

\* no rank in find_neighbors_in_tree_MPI
NoCand ==
    /\ nranks = 0 /\ cpc = << >> /\ leafRange = << >> /\ cleaf = << >>
    /\ rank_neighbors = << >> /\ rank_scores = << >>
    /\ local_neighbors_reduced = << >> /\ local_scores_reduced = << >>
    /\ processed = << >>

\* no rank in find_approximate_neighbors_MPI
NoSearch ==
    /\ sranks = 0 /\ num_iters = 0 /\ draws = << >> /\ spc = << >>
    /\ iter = << >> /\ rounds = << >> /\ quality = << >>

\* no neighbour search
NoAnn == NoMerge /\ NoRange /\ NoProj /\ NoCand /\ NoSearch

\* no dense() call
NoDense ==
    /\ dnodes = << >> /\ ddepth = << >> /\ offset = << >> /\ dpc = << >>
    /\ dtask = << >> /\ A = << >> /\ tmpU = << >> /\ tmpV = << >>

Init == InitMF /\ NoHSS /\ NoTree /\ NoPiv /\ NoKer /\ NoAnn /\ NoDense

Spec == Init /\ [][NextMF]_vars

(***************************************************************************)
(* Properties of the multifrontal factorization and solve.                 *)
(***************************************************************************)
Blocks == {"F11", "F12", "F21", "F22"}

\* multifrontal_factorization of front c has completed, its phase 2 included
Factored2(c) == ph[c] /\ pc[c] = "p1end"

\* the front is at or past the allocation of its blocks in factor_phase1
Assembling(f) == pc[f] \in {"alloc", "ea0", "ea1", "p1end"}

\* C1: in the factorization, whenever a front allocates its blocks or is in
\* or past an extend-add, the multifrontal_factorization calls of both its
\* children, their phase 2 included, have completed, whether the children
\* were forked as tasks or called one after the other.
C1_ChildrenFactoredBeforeAssembly ==
    op = "factor" =>
       \A f \in fronts :
          (Assembling(f) \/ blk[f] # NoBlocks) =>
             \A c \in Children(f) : Factored2(c)

\* a front with forked children and a front with sequentially called
\* children, both past the join
C1_Witness ==
    /\ op = "factor"
    /\ \E f, g \in fronts :
          /\ pc[f] \in {"ea0", "ea1"} /\ Cardinality(Children(f)) = 2
          /\ \A c \in Children(f) : istask[c]
          /\ pc[g] = "p1end" /\ Cardinality(Children(g)) = 2
          /\ \A c \in Children(g) : ~istask[c] /\ td[c] = td[g]

\* C2: phase 2 of a front has run only if phase 1 of the same front has
\* finished: its children are factored, its blocks assembled and both
\* children's extend-adds done (their F22 released); also for task_depth 0.
C2_Phase1BeforePhase2 ==
    op = "factor" =>
       \A f \in fronts :
          ph[f] => /\ pc[f] = "p1end"
                   /\ \A c \in Children(f) :
                         Factored2(c) /\ IsEmpty(blk[c].F22)

\* the root call with task_depth 0 and two children has run phase 2
C2_Witness ==
    /\ op = "factor"
    /\ td[1] = 0 /\ ph[1] /\ Cardinality(Children(1)) = 2 /\ cutoff > 0

\* the Schur complement a child holds when its parent's extend-add reads it
SchurComplement(ch) ==
    [p \in Idx(dupd[ch], dupd[ch]) |-> SchurVal(ch, p[1], p[2])]

\* the parent entry child entry (r,c) is to be added to, I = upd_to_parent
Target(I, pdsep, r, c) ==
    IF I[r+1] < pdsep /\ I[c+1] < pdsep THEN <<"F11", I[r+1], I[c+1]>>
    ELSE IF I[c+1] < pdsep THEN <<"F21", I[r+1] - pdsep, I[c+1]>>
    ELSE IF I[r+1] < pdsep THEN <<"F12", I[r+1], I[c+1] - pdsep>>
    ELSE <<"F22", I[r+1] - pdsep, I[c+1] - pdsep>>

\* what extract_front left in entry p of block b of front f (F22: zero)
AssembledEntry(f, b, p) ==
    CASE b = "F11" -> ExtractFront(f).F11[p]
      [] b = "F12" -> ExtractFront(f).F12[p]
      [] b = "F21" -> ExtractFront(f).F21[p]
      [] OTHER     -> 0

ExpectedEntry(f, b, p, chs) ==
    AssembledEntry(f, b, p)
    + SumOver({ch \in chs : TRUE},
              [ch \in chs |->
                  SumOver({q \in Idx(dupd[ch], dupd[ch]) :
                             Target(Iup[ch], dsep[f], q[1], q[2])
                                = <<b, p[1], p[2]>>},
                          SchurComplement(ch))])

BlockOf(B, b) ==
    CASE b = "F11" -> B.F11
      [] b = "F12" -> B.F12
      [] b = "F21" -> B.F21
      [] OTHER     -> B.F22

\* the children whose extend-add into front f has returned
ExtendAdded(f) ==
    CASE pc[f] = "p1end" -> Children(f)
      [] pc[f] = "ea1" /\ cols[f] = ChildColumns(f, 1) -> {lchild(f)} \ {0}
      [] OTHER -> {}

\* C3: after a child's extend_add_to_dense, and after both, every entry of
\* the parent equals its assembled value plus the sum of the child entries
\* F22_child(r,c) that upd_to_parent maps onto it, each added exactly once
\* to the quadrant the two indices select.
C3_ExtendAddExact ==
    op = "factor" =>
       \A f \in fronts :
          ((pc[f] = "p1end" /\ ~ph[f])
             \/ (pc[f] = "ea1" /\ cols[f] = ChildColumns(f, 1))) =>
             \A b \in Blocks :
                \A p \in DOMAIN BlockOf(blk[f], b) :
                   BlockOf(blk[f], b)[p] =
                      ExpectedEntry(f, b, p, ExtendAdded(f))

\* both children have been added, their index maps straddle the parent's
\* separator and hit common parent entries in all four quadrants
C3_Witness ==
    /\ op = "factor"
    /\ pc[1] = "p1end" /\ ~ph[1]
    /\ fronts = {1, 2, 3}
    /\ dupd[2] = 2 /\ dupd[3] = 2 /\ Iup[2] = Iup[3]
    /\ Upd2Sep(Iup[2], dsep[1]) = 1
    /\ blk[1].F22[<<0, 0>>] = SchurVal(2, 1, 1) + SchurVal(3, 1, 1)

\* the parent's extend_add_to_dense call on front f has returned
ExtendAddReturned(f) ==
    IF f % 2 = 0 THEN pc[Parent(f)] \in {"ea1", "p1end"}
                 ELSE pc[Parent(f)] = "p1end"

\* C4: a front with a parent and dim_upd > 0 holds its F22 from its
\* allocation on, holds the Schur complement in it from the end of its
\* phase 2 until the parent's extend_add_to_dense call on it returns, and
\* has an empty F22 from that return on.
C4_F22KeptUntilExtendAdd ==
    \A f \in fronts \ {1} :
       dupd[f] > 0 =>
          IF op = "factor"
          THEN /\ (pc[f] \in {"ea0", "ea1", "p1end"} /\ ~ExtendAddReturned(f))
                     => ~IsEmpty(blk[f].F22)
               /\ (Factored2(f) /\ ~ExtendAddReturned(f))
                     => blk[f].F22 = SchurComplement(f)
               /\ ExtendAddReturned(f) => IsEmpty(blk[f].F22)
          ELSE IsEmpty(blk[f].F22)

\* the left child has been consumed and released while the right child
\* still holds its Schur complement
C4_Witness ==
    /\ op = "factor"
    /\ pc[1] = "ea1"
    /\ lchild(1) # 0 /\ rchild(1) # 0
    /\ dupd[2] > 0 /\ dupd[3] > 0
    /\ IsEmpty(blk[2].F22)
    /\ blk[3].F22 = SchurComplement(3)
    /\ cols[1] # ChildColumns(1, 1)

\* the <<front, block>> pairs the next step of phase 1 (a = 1) or phase 2
\* (a = 2) of front f writes, or reads and clears
Access(f, a) ==
    IF op # "factor" THEN {}
    ELSE IF a = 1
    THEN CASE pc[f] = "alloc" -> {<<f, b>> : b \in Blocks}
           [] pc[f] \in {"ea0", "ea1"} ->
                 {<<f, b>> : b \in Blocks} \cup {<<EAChild(f), "F22">>}
           [] OTHER -> {}
    ELSE IF ~ph[f] /\ FactorPhase2Ready(f) THEN {<<f, b>> : b \in Blocks}
    ELSE {}

\* C5: no two steps that may run at the same time access the same block of
\* a front; the left child's extend-add has returned before the right
\* child's begins; and the iterations of one extend-add's column loop write
\* pairwise disjoint parent entries.
C5_NoConcurrentWrites ==
    /\ \A f, g \in fronts : \A a, a2 \in 1 .. 2 :
          <<f, a>> # <<g, a2>> => Access(f, a) \cap Access(g, a2) = {}
    /\ op = "factor" =>
          \A f \in fronts :
             /\ (pc[f] = "ea1" /\ lchild(f) # 0)
                   => IsEmpty(blk[lchild(f)].F22)
             /\ (pc[f] = "ea0" /\ rchild(f) # 0 /\ dupd[rchild(f)] > 0)
                   => blk[rchild(f)].F22 = SchurComplement(rchild(f))
             /\ pc[f] \in {"ea0", "ea1"} =>
                   LET ch == EAChild(f)
                       W(c) == ColumnWrites(Iup[ch], dsep[f], dupd[ch],
                                            Upd2Sep(Iup[ch], dsep[f]), c)
                   IN  \A c1, c2 \in 0 .. dupd[ch] - 1 :
                          c1 # c2 => W(c1) \cap W(c2) = {}

\* after the join of two forked children, a taskloop over two columns
C5_Witness ==
    /\ op = "factor"
    /\ fronts = {1, 2, 3}
    /\ pc[1] = "ea0" /\ td[1] < cutoff
    /\ istask[2] /\ istask[3]
    /\ Cardinality(cols[1]) = 2
    /\ Upd2Sep(Iup[2], dsep[1]) = 1

\* C6: in the forward solve a front's fwd_solve_phase2 has run only if the
\* forward solves of its children have completed; in the backward solve a
\* child's call has started only if its parent's bwd_solve_phase1 has run.
C6_SolveOrder ==
    /\ op = "fwd" =>
          \A f \in fronts :
             ph[f] => /\ pc[f] = "p1end"
                      /\ \A c \in Children(f) : Factored2(c)
    /\ op = "bwd" =>
          \A c \in fronts \ {1} : pc[c] # "idle" => ph[Parent(c)]

\* backward solve: a call with task_depth 0 and a call with task_depth > 0
\* have both started a child
C6_Witness ==
    /\ op = "bwd"
    /\ td[1] = 0
    /\ \E f \in fronts \ {1} :
          /\ td[f] > 0
          /\ \E c \in Children(f) : pc[c] # "idle"


(***************************************************************************)
(* HSS compression of a kernel matrix with approximate nearest neighbours: *)
(* HSSMatrix::compress(K, opts) of the adaptive text and compress_ann of   *)
(* src/HSS/HSSMatrix.compress.kernel.hpp, both over compress_recursive_ann.*)
(* A node's work (WorkCompressANN) is kept by its sizes: the number of     *)
(* neighbour ids in ids_scores and the length of Ir = Ic.                  *)
(***************************************************************************)
Min(a, b) == IF a <= b THEN a ELSE b

Max(a, b) == IF a >= b THEN a ELSE b

\* HSSMatrix(m, n, opts, active) with m = n: the <<node, rows>> pairs
RECURSIVE HSSTree(_, _, _)
HSSTree(nd, m, leaf) ==
    IF m > leaf
    THEN {<<nd, m>>} \cup HSSTree(2*nd, m \div 2, leaf)
                     \cup HSSTree(2*nd + 1, m - (m \div 2), leaf)
    ELSE {<<nd, m>>}

\* the number of levels below node nd in the tree T of <<node, rows>> pairs
RECURSIVE Height(_, _)
Height(T, nd) ==
    IF \E t \in T : t[1] = 2*nd
    THEN 1 + Max(Height(T, 2*nd), Height(T, 2*nd + 1))
    ELSE 0

\* this->leaf()
IsLeaf(nd) == (2*nd) \notin hnodes

\* this->_ch[k]
Ch(nd, k) == 2*nd + k

\* w.lvl == 0
IsRoot(nd) == nd = 1

\* the text of src/HSS/HSSMatrix.compress.kernel.hpp is the one that runs
HppCode == hpath = "compress_ann"

StateOrder(s) == CASE s = "UNTOUCHED"            -> 0
                   [] s = "PARTIALLY_COMPRESSED" -> 1
                   [] OTHER                      -> 2

is_compressed(nd) == hstate[nd] = "COMPRESSED"

is_untouched(nd) == hstate[nd] = "UNTOUCHED"

\* a newly constructed WorkCompressANN
EmptyWork == [ids |-> 0, Ir |-> 0]

\* compute_U_V_bases_ann has not run on the node in this pass
NoAcc == [res |-> "none", d |-> 0, r |-> 0, marked |-> FALSE, in |-> << >>]

\* no file of the name the call builds
NoFile == [ann |-> -1, rows |-> -1, id |-> -1]

(***************************************************************************)
(* compute_local_samples_ann: the sizes of I and of ids_scores.            *)
(***************************************************************************)
\* I.size(), the number of rows of w.S
SampleRows(nd) ==
    IF IsLeaf(nd) THEN hrows[nd]
    ELSE hw[Ch(nd, 0)].Ir + hw[Ch(nd, 1)].Ir

\* the sizes ids_scores can have after the duplicates are removed: the ids
\* lie outside the node's own index range; a leaf reads ann.rows() ids for
\* each of its rows, an internal node merges its children's lists and drops
\* the ids inside its own range
NeighbourCounts(nd) ==
    LET out == hn - hrows[nd]
    IN  IF IsLeaf(nd) THEN 0 .. Min(hrows[nd] * hannm, out)
        ELSE LET c0 == Ch(nd, 0)
                 c1 == Ch(nd, 1)
                 d0 == hw[c0].ids
                 d1 == hw[c1].ids
                 lo0 == Max(0, d0 - hrows[c1])
                 lo1 == Max(0, d1 - hrows[c0])
             IN  Max(lo0, lo1) .. Min(Min(d0, out) + Min(d1, out), out)

\* d: the adaptive text keeps every id ('#if 0' around the truncation), the
\* other text keeps at most I.size() + dd of them
SampleColumns(nd, cnt) ==
    IF HppCode THEN Min(cnt, SampleRows(nd) + hopts.dd) ELSE cnt

\* the ranks ID_row can return for an m x d sample matrix
IDRowRanks(m, d) == 0 .. Min(Min(m, d), hopts.max_rank)

\* what the node's samples are computed from besides ann, scores and the
\* kernel: the index lists and neighbour ids of its children
Inputs(nd) ==
    IF IsLeaf(nd) THEN << >> ELSE <<hw[Ch(nd, 0)], hw[Ch(nd, 1)]>>

\* ID_row and the merge of the neighbour ids are deterministic: from the
\* ann, scores and inputs of the last pass they give its d and rank again
Repeats(nd, d, r) ==
    (hprev[nd].res # "none" /\ hprev[nd].in = Inputs(nd)) =>
       (d = hprev[nd].d /\ r = hprev[nd].r)

\* faulty variant: the accuracy test is skipped
Accurate_Always(nd, d, r) == TRUE

\* the accuracy test of compute_U_V_bases_ann
Accurate(nd, d, r) ==
    IF HppCode
    THEN d - hopts.p >= hopts.max_rank \/ r < d - hopts.p
    ELSE d >= hrows[nd] \/ d >= hopts.max_rank \/ r + hopts.p < d

\* faulty variant: a failed node is downgraded
StateAfterBases_Downgrade(nd, ok) ==
    IF HppCode \/ ok THEN "COMPRESSED" ELSE "PARTIALLY_COMPRESSED"

\* the node's state after compute_U_V_bases_ann returned ok: the adaptive
\* text assigns COMPRESSED if ok, the other text always
StateAfterBases(nd, ok) ==
    IF HppCode \/ ok THEN "COMPRESSED" ELSE hstate[nd]

\* compute_local_samples_ann, compute_U_V_bases_ann, the state assignment
\* and w.c.clear() of a node below the root, with cnt neighbour ids and the
\* rank r
CompressBases(nd, cnt, r) ==
    LET d == SampleColumns(nd, cnt)
        ok == Accurate(nd, d, r)
        recorded == HppCode \/ ok
    IN  /\ hU' = [hU EXCEPT ![nd] = r]
        /\ hrank' = [hrank EXCEPT ![nd] = IF recorded THEN r ELSE @]
        /\ hw' = [x \in hnodes |->
                    IF x = nd THEN [ids |-> d,
                                    Ir |-> IF recorded THEN r ELSE 0]
                    ELSE IF x \in {Ch(nd, 0), Ch(nd, 1)} THEN EmptyWork
                    ELSE hw[x]]
        /\ hstate' = [hstate EXCEPT ![nd] = StateAfterBases(nd, ok)]
        /\ hacc' = [hacc EXCEPT ![nd] =
                      [res |-> IF ok THEN "ok" ELSE "failed",
                       d |-> d, r |-> r, marked |-> recorded,
                       in |-> Inputs(nd)]]

\* the end of compress_recursive_ann: the root is marked COMPRESSED, every
\* other node computes its samples and bases
OwnBases(nd) ==
    IF IsRoot(nd)
    THEN /\ hstate' = [hstate EXCEPT ![nd] = "COMPRESSED"]
         /\ UNCHANGED <<hU, hrank, hw, hacc>>
    ELSE \E cnt \in NeighbourCounts(nd) :
            \E r \in IDRowRanks(SampleRows(nd), SampleColumns(nd, cnt)) :
               /\ Repeats(nd, SampleColumns(nd, cnt), r)
               /\ CompressBases(nd, cnt, r)

(***************************************************************************)
(* HSSMatrix::compress_recursive_ann.  A call walks                        *)
(*   entry                     first statement                             *)
(*   wait                      children forked as tasks, at the taskwait   *)
(*   ret0, call1, ret1         children called one after the other         *)
(*   join                      children returned, before the test of their *)
(*                             states                                      *)
(*   early, ret                returned early / returned at the end        *)
(***************************************************************************)
HReturned(nd) == hpc[nd] \in {"early", "ret"}

HStartCall(nd, c, depth, task, next) ==
    /\ hpc' = [x \in hnodes |->
                 IF x = nd THEN next
                 ELSE IF x \in c THEN "entry" ELSE hpc[x]]
    /\ hdepth' = [x \in hnodes |-> IF x \in c THEN depth ELSE hdepth[x]]
    /\ histask' = [x \in hnodes |-> IF x \in c THEN task ELSE histask[x]]

\* a leaf: _D is extracted if the leaf is untouched, then the bases
CompressLeaf(nd) ==
    /\ hctl = "pass"
    /\ hpc[nd] = "entry"
    /\ IsLeaf(nd)
    /\ hD' = [hD EXCEPT ![nd] = @ \/ is_untouched(nd)]
    /\ OwnBases(nd)
    /\ hpc' = [hpc EXCEPT ![nd] = "ret"]
    /\ UNCHANGED <<nonHSS, hcall, hannid, hprev, hnodes, hrows, hpath, hopts,
                   hn, hann, hannm, hB, hdepth, histask, hpasses, hctl,
                   hfile>>

\* depth < task_recursion_cutoff_level: both children as tasks, depth+1
HForkChildren(nd) ==
    /\ hctl = "pass"
    /\ hpc[nd] = "entry"
    /\ ~IsLeaf(nd)
    /\ hdepth[nd] < cutoff
    /\ HStartCall(nd, {Ch(nd, 0), Ch(nd, 1)}, hdepth[nd] + 1, TRUE, "wait")
    /\ UNCHANGED <<nonHSS, hcall, hannid, hprev, hnodes, hrows, hpath, hopts,
                   hn, hann, hannm, hstate, hU, hrank, hB, hD, hw, hacc,
                   hpasses, hctl, hfile>>

\* faulty variant: no taskwait after the two child tasks
HTaskwaitDone_Missing(nd) == TRUE

\* #pragma omp taskwait
HTaskwaitDone(nd) == HReturned(Ch(nd, 0)) /\ HReturned(Ch(nd, 1))

HTaskwait(nd) ==
    /\ hctl = "pass"
    /\ hpc[nd] = "wait"
    /\ HTaskwaitDone(nd)
    /\ hpc' = [hpc EXCEPT ![nd] = "join"]
    /\ UNCHANGED <<nonHSS, hcall, hannid, hprev, hnodes, hrows, hpath, hopts,
                   hn, hann, hannm, hstate, hU, hrank, hB, hD, hw, hacc,
                   hdepth, histask, hpasses, hctl, hfile>>

\* otherwise the children are called in the calling task, same depth
HCallChild(nd) ==
    /\ hctl = "pass"
    /\ ~IsLeaf(nd)
    /\ \/ /\ hpc[nd] = "entry"
          /\ ~(hdepth[nd] < cutoff)
          /\ HStartCall(nd, {Ch(nd, 0)}, hdepth[nd], FALSE, "ret0")
       \/ /\ hpc[nd] = "call1"
          /\ HStartCall(nd, {Ch(nd, 1)}, hdepth[nd], FALSE, "ret1")
    /\ UNCHANGED <<nonHSS, hcall, hannid, hprev, hnodes, hrows, hpath, hopts,
                   hn, hann, hannm, hstate, hU, hrank, hB, hD, hw, hacc,
                   hpasses, hctl, hfile>>

HChildReturn(nd) ==
    /\ hctl = "pass"
    /\ \/ /\ hpc[nd] = "ret0"
          /\ HReturned(Ch(nd, 0))
          /\ hpc' = [hpc EXCEPT ![nd] = "call1"]
       \/ /\ hpc[nd] = "ret1"
          /\ HReturned(Ch(nd, 1))
          /\ hpc' = [hpc EXCEPT ![nd] = "join"]
    /\ UNCHANGED <<nonHSS, hcall, hannid, hprev, hnodes, hrows, hpath, hopts,
                   hn, hann, hannm, hstate, hU, hrank, hB, hD, hw, hacc,
                   hdepth, histask, hpasses, hctl, hfile>>

\* faulty variant: the children's states are not tested
ChildrenCompressed_Unchecked(nd) == TRUE

\* both children are compressed
ChildrenCompressed(nd) ==
    is_compressed(Ch(nd, 0)) /\ is_compressed(Ch(nd, 1))

\* if (!_ch[0]->is_compressed() || !_ch[1]->is_compressed()) return;
EarlyReturn(nd) ==
    /\ hctl = "pass"
    /\ hpc[nd] = "join"
    /\ ~ChildrenCompressed(nd)
    /\ hpc' = [hpc EXCEPT ![nd] = "early"]
    /\ UNCHANGED <<nonHSS, hcall, hannid, hprev, hnodes, hrows, hpath, hopts,
                   hn, hann, hannm, hstate, hU, hrank, hB, hD, hw, hacc,
                   hdepth, histask, hpasses, hctl, hfile>>

\* _B01 of the size U_rank(child 0) x V_rank(child 1), read at the index
\* lists w.c[0].Ir and w.c[1].Ic; _B10 is its transpose (adaptive text) or
\* read the same way (other text)
ExtractB01(nd) ==
    [rows |-> hrank[Ch(nd, 0)], cols |-> hrank[Ch(nd, 1)],
     Ir |-> hw[Ch(nd, 0)].Ir, Ic |-> hw[Ch(nd, 1)].Ir]

\* an internal node with both children compressed: the coupling blocks
\* (the other text: only if the node is untouched), then the bases
CompressNode(nd) ==
    /\ hctl = "pass"
    /\ hpc[nd] = "join"
    /\ ChildrenCompressed(nd)
    /\ hB' = [hB EXCEPT ![nd] = IF HppCode /\ ~is_untouched(nd)
                                THEN @ ELSE ExtractB01(nd)]
    /\ OwnBases(nd)
    /\ hpc' = [hpc EXCEPT ![nd] = "ret"]
    /\ UNCHANGED <<nonHSS, hcall, hannid, hprev, hnodes, hrows, hpath, hopts,
                   hn, hann, hannm, hD, hdepth, histask, hpasses, hctl,
                   hfile>>

(***************************************************************************)
(* HSSMatrix::compress(K, opts) and compress_ann.                          *)
(***************************************************************************)
\* while (!this->is_compressed()) of the adaptive branch
LoopTest == hpath = "adaptive" => ~is_compressed(1)

\* entries that are not those of any matrix a pass computed
Garbled == -2

\* ann.resize(ann_number, n); ann.read_from_binary_file(ann_filename): the
\* matrices written, if they were written with ann_number rows
ReadAnn(rows) == IF hfile.rows = rows THEN hfile.id ELSE Garbled

\* the contents of ann and scores a pass reads: computed anew by
\* find_approximate_neighbors (adaptive), read from the file (cached) or
\* given by the caller (compress_ann)
PassAnn ==
    CASE hpath = "adaptive" -> (hcall - 1) * MaxPasses + hpasses + 1
      [] hpath = "cached"   -> ReadAnn(hann)
      [] OTHER              -> 0

\* a pass: the ANN matrices are computed (adaptive), resized and read
\* (cached) or given (compress_ann) with ann_number rows, and the root is
\* called with a new WorkCompressANN; the adaptive loop runs a pass only
\* while the root is not compressed
StartPass ==
    /\ hctl = "call"
    /\ hpasses < MaxPasses
    /\ LoopTest
    /\ hannm' = hann
    /\ hannid' = PassAnn
    /\ hw' = [x \in hnodes |-> EmptyWork]
    /\ hacc' = [x \in hnodes |-> NoAcc]
    /\ hpc' = [x \in hnodes |-> IF x = 1 THEN "entry" ELSE "idle"]
    /\ hdepth' = [x \in hnodes |-> IF x = 1 THEN 0 ELSE -1]
    /\ histask' = [x \in hnodes |-> FALSE]
    /\ hpasses' = hpasses + 1
    /\ hctl' = "pass"
    /\ UNCHANGED <<nonHSS, hcall, hprev, hnodes, hrows, hpath, hopts, hn,
                   hann, hstate, hU, hrank, hB, hD, hfile>>

\* the root's call has returned and the parallel region has ended; the
\* adaptive loop doubles ann_number, at most to n
EndPass ==
    /\ hctl = "pass"
    /\ HReturned(1)
    /\ IF hpath = "adaptive"
       THEN hann' = Min(2 * hann, hn) /\ hctl' = "call"
       ELSE hann' = hann /\ hctl' = "returned"
    /\ UNCHANGED <<nonHSS, hcall, hannid, hprev, hnodes, hrows, hpath, hopts,
                   hn, hannm, hstate, hU, hrank, hB, hD, hw, hacc, hpc,
                   hdepth, histask, hpasses, hfile>>

\* the adaptive loop is left: ann and scores, as the last pass left them,
\* are written under ann_filename and scores_filename, the names built
\* before the loop from n and the ann_number the call started with
SaveAndReturn ==
    /\ hctl = "call"
    /\ hpath = "adaptive"
    /\ is_compressed(1)
    /\ hfile' = [ann |-> hopts.ann_number, rows |-> hannm, id |-> hannid]
    /\ hctl' = "returned"
    /\ UNCHANGED <<nonHSS, hcall, hannid, hprev, hnodes, hrows, hpath, hopts,
                   hn, hann, hannm, hstate, hU, hrank, hB, hD, hw, hacc, hpc,
                   hdepth, histask, hpasses>>

\* compress(K, opts) is called again on the matrix, with the same kernel
\* and options: ann_number is computed again, the branch is the cached one
\* if a file of that name exists, and ann and scores are new and empty.
\* The samples and ranks of the last pass are kept where the file read
\* gives the ann and scores that pass read.
CallAgain ==
    LET found == hfile.ann = hopts.ann_number
    IN  /\ hctl = "returned"
        /\ hcall = 1
        /\ hpath # "compress_ann"
        /\ hcall' = 2
        /\ hann' = hopts.ann_number
        /\ hpath' = IF found THEN "cached" ELSE "adaptive"
        /\ hannm' = 0
        /\ hannid' = -1
        /\ hprev' = [x \in hnodes |->
                       IF found /\ ReadAnn(hopts.ann_number) = hannid
                       THEN hacc[x] ELSE NoAcc]
        /\ hpasses' = 0
        /\ hctl' = "call"
        /\ UNCHANGED <<nonHSS, hnodes, hrows, hopts, hn, hstate, hU, hrank,
                       hB, hD, hw, hacc, hpc, hdepth, histask, hfile>>

NextHSS ==
    \/ \E nd \in hnodes : CompressLeaf(nd)
    \/ \E nd \in hnodes : HForkChildren(nd)
    \/ \E nd \in hnodes : HTaskwait(nd)
    \/ \E nd \in hnodes : HCallChild(nd)
    \/ \E nd \in hnodes : HChildReturn(nd)
    \/ \E nd \in hnodes : EarlyReturn(nd)
    \/ \E nd \in hnodes : CompressNode(nd)
    \/ StartPass
    \/ EndPass
    \/ SaveAndReturn

\* no elimination tree
NoMF ==
    /\ fronts = {} /\ dsep = << >> /\ dupd = << >> /\ Iup = << >>
    /\ op = "none" /\ pc = << >> /\ td = << >> /\ istask = << >>
    /\ ph = << >> /\ cols = << >> /\ blk = << >>

\* an HSS matrix of a kernel with n points as its constructor leaves it,
\* and the options of the compress call; cutoff levels above the height of
\* the tree all fork at every level
InitHSS ==
    \E n \in 1 .. MaxN, leaf \in 1 .. MaxLeaf, k \in 1 .. MaxN,
       path \in {"adaptive", "cached", "compress_ann"} :
       LET T == HSSTree(1, n, leaf)
       IN  /\ Cardinality(T) <= MaxNodes
           /\ cutoff \in 0 .. Min(MaxCutoff, Height(T, 1))
           /\ hnodes = {t[1] : t \in T}
           /\ hrows = [nd \in {t[1] : t \in T} |->
                         CHOOSE m \in 1 .. n : <<nd, m>> \in T]
           /\ hpath = path
           /\ \E p \in 0 .. MaxP, mr \in 1 .. MaxRank,
                 dd \in 0 .. (IF path = "compress_ann" THEN MaxDd ELSE 0) :
                 hopts = [p |-> p, max_rank |-> mr, dd |-> dd,
                          ann_number |-> Min(n, k)]
           /\ hcall = 1
           /\ hannid = -1
           /\ hprev = [nd \in {t[1] : t \in T} |-> NoAcc]
           /\ hn = n
           /\ hann = Min(n, k)
           /\ hannm = 0
           /\ hstate = [nd \in {t[1] : t \in T} |-> "UNTOUCHED"]
           /\ hU = [nd \in {t[1] : t \in T} |-> 0]
           /\ hrank = [nd \in {t[1] : t \in T} |-> 0]
           /\ hB = [nd \in {t[1] : t \in T} |->
                      [rows |-> 0, cols |-> 0, Ir |-> 0, Ic |-> 0]]
           /\ hD = [nd \in {t[1] : t \in T} |-> FALSE]
           /\ hw = [nd \in {t[1] : t \in T} |-> EmptyWork]
           /\ hacc = [nd \in {t[1] : t \in T} |-> NoAcc]
           /\ hpc = [nd \in {t[1] : t \in T} |-> "idle"]
           /\ hdepth = [nd \in {t[1] : t \in T} |-> -1]
           /\ histask = [nd \in {t[1] : t \in T} |-> FALSE]
           /\ hpasses = 0
           /\ hctl = "call"
           /\ hfile = IF path = "cached" THEN [ann |-> Min(n, k),
                                               rows |-> Min(n, k), id |-> 0]
                      ELSE NoFile

InitH ==
    NoMF /\ InitHSS /\ NoTree /\ NoPiv /\ NoKer /\ NoAnn /\ NoDense

SpecHSS == InitH /\ [][NextHSS]_vars

\* two calls of compress(K, opts), one after the other, on one matrix
NextHSS2 ==
    \/ NextHSS
    \/ CallAgain

InitH2 == InitH /\ hpath # "compress_ann"

SpecHSS2 == InitH2 /\ [][NextHSS2]_vars

(***************************************************************************)
(* Properties of the HSS compression.                                      *)
(***************************************************************************)
\* the nodes below the root
Inner == hnodes \ {1}

\* the last pass started has returned
PassReturned == hpasses > 0 /\ hctl \in {"call", "returned"}

\* C7: in every step of a compression, whatever the number of passes, the
\* state of every node stays where it is or moves forward in the order
\* UNTOUCHED < PARTIALLY_COMPRESSED < COMPRESSED; a COMPRESSED node stays
\* COMPRESSED.
C7_StateNeverRegresses ==
    [][\A nd \in hnodes :
          StateOrder(hstate[nd]) <= StateOrder(hstate'[nd])]_vars

\* a node compressed by the first pass has failed the accuracy test of the
\* second pass
C7_Witness ==
    /\ hpath = "adaptive"
    /\ hpasses = 2
    /\ \E nd \in Inner : hacc[nd].res = "failed" /\ is_compressed(nd)

C9_ChildrenFirst ==
    [][\A nd \in hnodes :
          (2*nd) \in hnodes =>
             LET c0 == 2*nd
                 c1 == 2*nd + 1
                 joined == hpc[c0] \in {"early", "ret"}
                           /\ hpc[c1] \in {"early", "ret"}
                 kept == /\ hB'[nd] = hB[nd]
                         /\ hU'[nd] = hU[nd]
                         /\ hrank'[nd] = hrank[nd]
                         /\ hstate'[nd] = hstate[nd]
             IN  /\ (~kept \/ (hpc'[nd] = "ret" /\ hpc[nd] # "ret")
                           \/ (hacc'[nd].res # "none"
                                 /\ hacc[nd].res = "none")) =>
                        /\ joined
                        /\ hstate[c0] = "COMPRESSED"
                        /\ hstate[c1] = "COMPRESSED"
                 /\ (hpc'[nd] = "early" /\ hpc[nd] # "early") =>
                        /\ joined
                        /\ kept
                        /\ hacc'[nd] = hacc[nd]
                        /\ (hstate[c0] # "COMPRESSED"
                              \/ hstate[c1] # "COMPRESSED")]_vars

\* in a second pass, with both children forked as tasks: a node below the
\* root has computed its bases after the join, and the root has returned
\* early
C9_Witness ==
    /\ hpasses = 2
    /\ hpc[1] = "early" /\ histask[2]
    /\ \E nd \in Inner :
          /\ (2*nd) \in hnodes
          /\ hpc[nd] = "ret" /\ hacc[nd].res # "none"
          /\ histask[2*nd] /\ histask[2*nd + 1]

\* the nodes that failed the accuracy test in the pass
Failed == {nd \in hnodes : hacc[nd].res = "failed"}

C11_FullAnnPassCompresses ==
    (hpath = "adaptive" /\ PassReturned /\ hannm = hn) => is_compressed(1)

\* C12: in every step of a second call compress(K, opts), with the same
\* kernel and options, on a matrix the first call left with its root
\* COMPRESSED, every node keeps its bases, ranks, coupling blocks,
\* diagonal block and state.
C12_SecondCallChangesNothing ==
    [][(hcall = 2 /\ is_compressed(1)) =>
          /\ hU' = hU /\ hrank' = hrank
          /\ hB' = hB /\ hD' = hD
          /\ hstate' = hstate]_vars

\* C25: when compress(K, opts) returns, on the branch that reads the ANN
\* matrices from the scratch folder as on the adaptive branch, the root is
\* COMPRESSED.
C25_ReturnsCompressed ==
    (hctl = "returned" /\ hpath \in {"cached", "adaptive"}) =>
       is_compressed(1)

\* the parent of a node below the root
HParent(nd) == nd \div 2

\* the node's call has reached its end in the pass in progress and its
\* parent has not yet read and cleared what it hands up
HandsUp(nd) == hpc[nd] = "ret" /\ hpc[HParent(nd)] # "ret"

\* C26: in every pass, first or repeated, a COMPRESSED node below the root
\* whose call has reached its end has recorded ranks equal to the columns
\* of its bases and hands its parent index lists Ir, Ic of exactly that many
\* entries; the coupling blocks a parent extracts in the pass have as many
\* rows and columns as the index lists they are read at.
C26_RanksMatchBasesAndIndexLists ==
    /\ \A nd \in Inner :
          (is_compressed(nd) /\ HandsUp(nd)) =>
             /\ hrank[nd] = hU[nd]
             /\ hw[nd].Ir = hrank[nd]
    /\ \A nd \in hnodes :
          ((2*nd) \in hnodes /\ hpc[nd] = "ret" /\ ~HppCode) =>
             /\ hB[nd].rows = hB[nd].Ir
             /\ hB[nd].cols = hB[nd].Ic

\* C27: the ANN matrices compress(K, opts) saves are stored under the name
\* built from n and their own number of rows, the ann_number they were
\* computed with, whatever the number of passes of the adaptive loop.
C27_SavedUnderOwnAnnNumber ==
    (hctl = "returned" /\ hpath = "adaptive") =>
       /\ hfile.rows = hannm
       /\ hfile.ann = hfile.rows

(***************************************************************************)
(* HSSMatrix(m, n, opts): the constructor of src/HSS/HSSMatrix.hpp, one    *)
(* call at a time, a node's first child and all below it before its second *)
(* child.                                                                  *)
(***************************************************************************)
\* faulty variant: only the rows are compared with the leaf size
Split_RowsOnly(m, n, leaf) == m > leaf

\* if (m > leaf_size || n > leaf_size)
Split(m, n, leaf) == m > leaf \/ n > leaf

\* the dimensions given to child k: (m/2, n/2) and (m-m/2, n-n/2)
ChildDims(m, n, k) ==
    IF k = 0 THEN [rows |-> m \div 2, cols |-> n \div 2]
    ELSE [rows |-> m - (m \div 2), cols |-> n - (n \div 2)]

\* the constructor of the node on top: HSSMatrixBase(m, n, active), then
\* the two children if the node is split
Construct ==
    /\ tstack # << >>
    /\ LET nd == Head(tstack)
           m == tnodes[nd].rows
           n == tnodes[nd].cols
       IN  IF Split(m, n, tleaf)
           THEN /\ tnodes' = tnodes @@ (2*nd :> ChildDims(m, n, 0))
                                    @@ (2*nd + 1 :> ChildDims(m, n, 1))
                /\ tch' = tch @@ (nd :> <<2*nd, 2*nd + 1>>)
                /\ tstack' = <<2*nd, 2*nd + 1>> \o Tail(tstack)
           ELSE /\ tnodes' = tnodes
                /\ tch' = tch @@ (nd :> << >>)
                /\ tstack' = Tail(tstack)
    /\ UNCHANGED <<nonTree, tleaf>>

NextTree == Construct

InitTree ==
    \E m \in 0 .. MaxDim, n \in 0 .. MaxDim, leaf \in 1 .. MaxLeaf :
       /\ tleaf = leaf
       /\ tnodes = (1 :> [rows |-> m, cols |-> n])
       /\ tch = << >>
       /\ tstack = <<1>>

InitT ==
    /\ NoMF /\ cutoff = 0 /\ NoHSS /\ InitTree /\ NoPiv /\ NoKer
    /\ NoAnn /\ NoDense

SpecTree == InitT /\ [][NextTree]_vars

Scalars ==
    [re : (0 - MaxVal) .. MaxVal, im : (0 - MaxVal) .. MaxVal]

\* std::abs(z) squared
AbsSq(z) == z.re * z.re + z.im * z.im

\* std::abs(F11_(i,i)) < thresh
Tiny(z, thresh) == AbsSq(z) < thresh * thresh

\* faulty variant: a pivot that is not positive becomes -thresh
Replacement_NonPositive(z, thresh) ==
    IF z.re <= 0 THEN [re |-> 0 - thresh, im |-> 0]
    ELSE [re |-> thresh, im |-> 0]

\* (std::real(F11_(i,i)) < 0) ? -thresh : thresh
Replacement(z, thresh) ==
    IF z.re < 0 THEN [re |-> 0 - thresh, im |-> 0]
    ELSE [re |-> thresh, im |-> 0]

\* the factors F11_.LU leaves in F11_: any scalars on the diagonal; the
\* entries off the diagonal are kept by their position
LUFactors(n) ==
    {[ij \in Idx(n, n) |->
         IF ij[1] = ij[2] THEN dg[ij[1]]
         ELSE [re |-> ij[1] + 1, im |-> 0 - (ij[2] + 1)]] :
       dg \in [0 .. n - 1 -> Scalars]}

\* piv = F11_.LU(task_depth): the result of getrf is not returned to
\* factor_phase2, the call returns with the factors whatever the pivots
PivLU ==
    /\ ppc = "entry"
    /\ pdim.sep > 0
    /\ pF11' \in LUFactors(pdim.sep)
    /\ ppc' = "lu"
    /\ UNCHANGED <<nonPiv, pdim, popts>>

\* the loop over the diagonal of F11_, if opts.replace_tiny_pivots()
ReplaceTinyPivots ==
    /\ ppc = "lu"
    /\ popts.replace_tiny_pivots
    /\ pF11' = [ij \in DOMAIN pF11 |->
                  IF ij[1] = ij[2] /\ Tiny(pF11[ij], popts.thresh)
                  THEN Replacement(pF11[ij], popts.thresh)
                  ELSE pF11[ij]]
    /\ ppc' = "pivots"
    /\ UNCHANGED <<nonPiv, pdim, popts>>

\* the diagonal is as factor_phase2 leaves it
PivotsSettled ==
    ppc = "pivots" \/ (ppc = "lu" /\ ~popts.replace_tiny_pivots)

\* if (dim_upd()): laswp, trsm, trsm, gemm; nothing is tested before them
PivSolves ==
    /\ PivotsSettled
    /\ pdim.upd > 0
    /\ ppc' = "solved"
    /\ UNCHANGED <<nonPiv, pdim, popts, pF11>>

PivReturn ==
    /\ \/ ppc = "entry" /\ pdim.sep = 0
       \/ PivotsSettled /\ pdim.upd = 0
       \/ ppc = "solved"
    /\ ppc' = "done"
    /\ UNCHANGED <<nonPiv, pdim, popts, pF11>>

NextPiv ==
    \/ PivLU
    \/ ReplaceTinyPivots
    \/ PivSolves
    \/ PivReturn

InitPiv ==
    \E s \in 0 .. MaxPivDim, u \in 0 .. 1, rp \in BOOLEAN,
       th \in 1 .. MaxThresh :
       /\ pdim = [sep |-> s, upd |-> u]
       /\ popts = [replace_tiny_pivots |-> rp, thresh |-> th]
       /\ pF11 = << >>
       /\ ppc = "entry"

InitP ==
    /\ NoMF /\ cutoff = 0 /\ NoHSS /\ NoTree /\ InitPiv /\ NoKer
    /\ NoAnn /\ NoDense

SpecPiv == InitP /\ [][NextPiv]_vars

\* C14: with replace_tiny_pivots enabled, once the loop over the diagonal
\* has ended every diagonal entry of the factored F11 has magnitude at
\* least thresh; the loop replaces a diagonal entry of magnitude below
\* thresh by -thresh if its real part is negative and by thresh otherwise
\* (a zero pivot becomes +thresh) and leaves every other entry as it was;
\* with the option disabled, and in every later step, no entry changes.
C14_TinyPivotsReplaced ==
    /\ []((popts.replace_tiny_pivots /\ ppc \in {"pivots", "solved", "done"})
            => \A i \in 0 .. pdim.sep - 1 :
                  pF11[<<i, i>>].re * pF11[<<i, i>>].re
                     + pF11[<<i, i>>].im * pF11[<<i, i>>].im
                     >= popts.thresh * popts.thresh)
    /\ [][ppc # "entry" =>
            /\ DOMAIN pF11' = DOMAIN pF11
            /\ \A ij \in DOMAIN pF11 :
                  LET z == pF11[ij]
                      below == z.re * z.re + z.im * z.im
                                  < popts.thresh * popts.thresh
                  IN  IF /\ ppc = "lu" /\ popts.replace_tiny_pivots
                         /\ ij[1] = ij[2] /\ below
                      THEN /\ pF11'[ij].im = 0
                           /\ pF11'[ij].re = IF z.re < 0
                                             THEN 0 - popts.thresh
                                             ELSE popts.thresh
                      ELSE pF11'[ij] = z]_vars

\* the loop has run on a front with a zero pivot, a tiny pivot with a
\* negative real part and entries off the diagonal
C14_Witness ==
    /\ popts.replace_tiny_pivots /\ ppc = "done"
    /\ pdim.sep = 2 /\ pdim.upd > 0
    /\ popts.thresh = 2
    /\ pF11[<<0, 0>>] = [re |-> 2, im |-> 0]
    /\ pF11[<<1, 1>>] = [re |-> -2, im |-> 0]

\* C15: a front whose F11 has a vanished pivot when the diagonal is settled
\* (a zero diagonal entry after LU with replace_tiny_pivots disabled) is
\* not factored further: the triangular solves and the Schur update do not
\* run on it.
C15_VanishedPivotStops ==
    ppc \in {"solved", "done"} =>
       \A i \in 0 .. pdim.sep - 1 : pF11[<<i, i>>] # [re |-> 0, im |-> 0]

(***************************************************************************)
(* The blocks of a front after its elimination.                            *)
(***************************************************************************)
\* factor_phase2 of the front has completed, in this or an earlier traversal
Eliminated(f) == op \in {"fwd", "bwd", "end"} \/ (op = "factor" /\ ph[f])

\* C16 as stated: once factor_phase2 of a front has completed, its F11, F12
\* and F21 are destroyed.
C16_FactorsDestroyed ==
    \A f \in fronts :
       (Eliminated(f) /\ dsep[f] > 0) =>
          /\ IsEmpty(blk[f].F11)
          /\ IsEmpty(blk[f].F12)
          /\ IsEmpty(blk[f].F21)

\* C16, amended: once factor_phase2 of a front has completed, the front
\* holds F11 (the LU factors), F12 and F21 in their full dimensions and no
\* later step of the factorization or of the solves changes or releases
\* them; F22 is the only block released, by the parent's extend-add.
C16_FactorsKeptForSolves ==
    /\ [](\A f \in fronts :
            Eliminated(f) =>
               /\ DOMAIN blk[f].F11 = Idx(dsep[f], dsep[f])
               /\ DOMAIN blk[f].F12 = Idx(dsep[f], dupd[f])
               /\ DOMAIN blk[f].F21 = Idx(dupd[f], dsep[f])
               /\ (op # "factor" /\ f # 1) => IsEmpty(blk[f].F22))
    /\ [][\A f \in fronts :
             Eliminated(f) =>
                /\ blk'[f].F11 = blk[f].F11
                /\ blk'[f].F12 = blk[f].F12
                /\ blk'[f].F21 = blk[f].F21]_vars

\* the backward solve has returned: a front below the root still holds its
\* three factor blocks and has given up its F22
C16_Witness ==
    /\ op = "end"
    /\ \E f \in fronts \ {1} :
          /\ dsep[f] > 0 /\ dupd[f] > 0
          /\ ~IsEmpty(blk[f].F11)
          /\ ~IsEmpty(blk[f].F12)
          /\ ~IsEmpty(blk[f].F21)
          /\ IsEmpty(blk[f].F22)

(***************************************************************************)
(* The tasks of the factorization.                                         *)
(***************************************************************************)
\* the fronts whose multifrontal_factorization call is a task that has been
\* created and has not completed
LiveTasks ==
    {c \in fronts : istask[c] /\ td[c] >= 0 /\ ~ph[c]}

\* how every child called so far was dispatched: as a task exactly when its
\* parent's task_depth is below the cutoff, then with task_depth + 1, at
\* most the cutoff; otherwise in the parent's task with the parent's
\* task_depth, the right child after the left child's call has returned
DispatchedByDepth ==
    \A c \in fronts \ {1} :
       td[c] >= 0 =>
          LET f == c \div 2
          IN  /\ istask[c] <=> td[f] < cutoff
              /\ istask[c] => td[c] = td[f] + 1 /\ td[c] <= cutoff
              /\ ~istask[c] =>
                    /\ td[c] = td[f]
                    /\ (c = 2*f + 1 /\ (2*f) \in fronts) => ph[2*f]

\* C17 as stated: children are dispatched as tasks only below the cutoff,
\* with a depth one more per forked level and at most the cutoff, and
\* sequentially at or beyond it; at most 2^cutoff subtree tasks exist at
\* any time.
C17_AtMostPow2CutoffTasks ==
    op = "factor" =>
       /\ DispatchedByDepth
       /\ Cardinality(LiveTasks) <= Pow2(cutoff)

\* C17, amended: the dispatch is as stated; the tasks of every forked level
\* exist together, a parent task waiting at its taskwait for its two
\* child tasks, so at most 2^k tasks of depth k and 2^(cutoff+1) - 2 tasks
\* in all exist at any time, at most 2^cutoff of them not at a taskwait.
C17_TasksBelowCutoff ==
    op = "factor" =>
       /\ DispatchedByDepth
       /\ \A k \in 1 .. cutoff :
             Cardinality({c \in LiveTasks : td[c] = k}) <= Pow2(k)
       /\ \A c \in LiveTasks : td[c] \in 1 .. cutoff
       /\ Cardinality(LiveTasks) <= Pow2(cutoff + 1) - 2
       /\ Cardinality({c \in LiveTasks : pc[c] # "wait"}) <= Pow2(cutoff)

\* with a cutoff of 2, the two tasks of depth 1 wait at their taskwait for
\* the three tasks of depth 2 they have forked
C17_Witness ==
    /\ op = "factor" /\ cutoff = 2 /\ td[1] = 0
    /\ Cardinality(LiveTasks) = 5
    /\ pc[2] = "wait" /\ pc[3] = "wait"
    /\ \A c \in {4, 5, 6} : c \in LiveTasks /\ td[c] = 2

(***************************************************************************)
(* get_name(KernelType) and kernel_type(std::string) of                    *)
(* src/kernel/KernelRegression.hpp.                                        *)
(***************************************************************************)
KernelTypes == {"GAUSS", "LAPLACE"}

\* the strings a caller passes to kernel_type
Names ==
    {"Gauss", "Laplace", "gauss", "laplace", "GAUSS", "LAPLACE", "",
     "Gaus", "Gaussian", "Lapl", "Laplacian", "rbf", "UNKNOWN", "Matern",
     "Gauss ", " Laplace"}

\* std::string::compare: 0 for equal strings, a value that is not 0 (here
\* 1) for different ones
Compare(a, b) == IF a = b THEN 0 ELSE 1

\* an int used as a condition
Truthy(i) == i # 0

get_name(k) ==
    CASE k = "GAUSS"   -> "Gauss"
      [] k = "LAPLACE" -> "Laplace"
      [] OTHER         -> "UNKNOWN"

\* the KernelType returned and whether the message was written to std::cerr
kernel_type(k) ==
    IF Compare(k, "Gauss") = 0
    THEN [type |-> "GAUSS", cerr |-> FALSE]
    ELSE IF Truthy(Compare(k, "Laplace"))
    THEN [type |-> "LAPLACE", cerr |-> FALSE]
    ELSE [type |-> "GAUSS", cerr |-> TRUE]

\* a caller asks for the name of a kernel type
GetName ==
    /\ kpc \in {"start", "typed"}
    /\ \E k \in KernelTypes :
          /\ kin' = k
          /\ kname' = get_name(k)
    /\ kres' = "none"
    /\ kwarned' = FALSE
    /\ kpc' = "named"
    /\ UNCHANGED <<nonKer, kcerr>>

\* a caller has a string of its own, a command line argument for one
GiveName ==
    /\ kpc \in {"start", "typed"}
    /\ kin' = "none"
    /\ kname' \in Names
    /\ kres' = "none"
    /\ kwarned' = FALSE
    /\ kpc' = "given"
    /\ UNCHANGED <<nonKer, kcerr>>

\* kernel_type(kname)
KernelTypeCall ==
    /\ kpc \in {"named", "given"}
    /\ kcerr < MaxCerr
    /\ kres' = kernel_type(kname).type
    /\ kwarned' = kernel_type(kname).cerr
    /\ kcerr' = IF kernel_type(kname).cerr THEN kcerr + 1 ELSE kcerr
    /\ kpc' = "typed"
    /\ UNCHANGED <<nonKer, kin, kname>>

NextKer ==
    \/ GetName
    \/ GiveName
    \/ KernelTypeCall

InitKer ==
    /\ kin = "none" /\ kname = "" /\ kres = "none" /\ kwarned = FALSE
    /\ kcerr = 0 /\ kpc = "start"

InitK ==
    /\ NoMF /\ cutoff = 0 /\ NoHSS /\ NoTree /\ NoPiv /\ InitKer
    /\ NoAnn /\ NoDense

SpecKer == InitK /\ [][NextKer]_vars

\* C18: kernel_type is the inverse of get_name: kernel_type("Gauss") is
\* GAUSS, kernel_type("Laplace") is LAPLACE, and kernel_type(get_name(k))
\* is k for every KernelType k.
C18_KernelTypeInvertsGetName ==
    kpc = "typed" =>
       /\ kname = "Gauss" => kres = "GAUSS"
       /\ kname = "Laplace" => kres = "LAPLACE"
       /\ kin # "none" => kres = kin

\* C19: kernel_type called with a string that is neither "Gauss" nor
\* "Laplace" writes its warning and returns GAUSS.
C19_UnknownNameWarnsGauss ==
    (kpc = "typed" /\ kname \notin {"Gauss", "Laplace"}) =>
       kres = "GAUSS" /\ kwarned

(***************************************************************************)
(* choose_best_neighbors_MPI of clustering/NeighborSearch_MPI.hpp, one     *)
(* column: the neighbours of one point.  The data are points on a line at  *)
(* the coordinates 0 .. MaxPoint, the point of the column is the one in    *)
(* the middle, and a score is the squared distance to it.                  *)
(***************************************************************************)
\* nothing else of the program is running
NoOther ==
    /\ NoMF /\ cutoff = 0 /\ NoHSS /\ NoTree /\ NoPiv /\ NoKer
    /\ NoDense

Points == 0 .. MaxPoint

Centre == MaxPoint \div 2

\* Euclidean_distance_squared of the point of the column and point id
Dist(id) == (id - Centre) * (id - Centre)

\* the row of a neighbour
Entry(id) == [id |-> id, score |-> Dist(id)]

\* the columns find_neighbors_in_tree_MPI can leave: the ann nearest
\* points of a leaf that holds the point of the column, nearest first, points
\* at one distance in either order (std::partial_sort)
SortedColumns(ann) ==
    {[i \in 1 .. ann |-> Entry(f[i])] :
       f \in {g \in [1 .. ann -> Points] :
                /\ \A i, j \in 1 .. ann : i # j => g[i] # g[j]
                /\ \A i, j \in 1 .. ann : i < j => Dist(g[i]) <= Dist(g[j])
                /\ \E i \in 1 .. ann : g[i] = Centre}}

ann_number == Len(neighbors)

cur == Len(cur_neighbors)

\* neighbors(r1, c) == new_neighbors(r2, c)
SameNeighbour(a, b) == a.id = b.id

\* while ((r1 < ann_number) && (r2 < ann_number) && (cur < ann_number))
MergeTest == r1 < ann_number /\ r2 < ann_number /\ cur < ann_number

\* one iteration of the first loop
MergeStep ==
    /\ mpc = "merge"
    /\ MergeTest
    /\ LET old == neighbors[r1 + 1]
           new == new_neighbors[r2 + 1]
       IN  IF old.score > new.score
           THEN /\ cur_neighbors' = Append(cur_neighbors, new)
                /\ r2' = r2 + 1
                /\ r1' = r1
           ELSE /\ cur_neighbors' = Append(cur_neighbors, old)
                /\ r2' = IF SameNeighbour(old, new) THEN r2 + 1 ELSE r2
                /\ r1' = r1 + 1
    /\ UNCHANGED <<nonAnn, rangevars, projvars, candvars, searchvars, neighbors, new_neighbors, given, mpc>>

\* while (cur < ann_number): the rows the second loop adds to rows cn, read
\* from row a of neighbors and row b of new_neighbors on
RECURSIVE Fill(_, _, _)
Fill(cn, a, b) ==
    IF Len(cn) < ann_number
    THEN IF a = ann_number
         THEN Fill(Append(cn, new_neighbors[b + 1]), a, b + 1)
         ELSE Fill(Append(cn, neighbors[a + 1]), a + 1, b)
    ELSE cn

\* the first loop is left, the second loop runs, and the rows are copied
\* back to neighbors and scores
CopyBack ==
    /\ mpc = "merge"
    /\ ~MergeTest
    /\ cur_neighbors' = Fill(cur_neighbors, r1, r2)
    /\ neighbors' = cur_neighbors'
    /\ mpc' = "done"
    /\ UNCHANGED <<nonAnn, rangevars, projvars, candvars, searchvars,
                   new_neighbors, r1, r2, given>>

NextMerge ==
    \/ MergeStep
    \/ CopyBack

InitMerge ==
    \E ann \in 1 .. Min(MaxAnn, MaxPoint + 1) :
       /\ neighbors \in SortedColumns(ann)
       /\ new_neighbors \in SortedColumns(ann)
       /\ given = neighbors
       /\ cur_neighbors = << >>
       /\ r1 = 0 /\ r2 = 0
       /\ mpc = "merge"

InitM == NoOther /\ InitMerge /\ NoRange /\ NoProj /\ NoCand /\ NoSearch

SpecMerge == InitM /\ [][NextMerge]_vars

\* the rows of a column
Rows(col) == {col[i] : i \in 1 .. Len(col)}

\* C23: when a column has been merged, neighbors and scores hold the
\* ann_number nearest rows of the union of the two columns given, nearest
\* first, and no neighbour id twice.
C23_NearestOfUnionOnce ==
    mpc = "done" =>
       LET union == Rows(given) \cup Rows(new_neighbors)
       IN  /\ Len(neighbors) = Len(given)
           /\ \A i, j \in 1 .. Len(neighbors) :
                 i < j => /\ neighbors[i].score <= neighbors[j].score
                          /\ neighbors[i].id # neighbors[j].id
           /\ Rows(neighbors) \subseteq union
           /\ \A e \in union \ Rows(neighbors) :
                 \A i \in 1 .. Len(neighbors) : neighbors[i].score <= e.score

(***************************************************************************)
(* getLeafsRange of clustering/NeighborSearch_MPI.hpp, called once by      *)
(* every rank, in any order.                                               *)
(***************************************************************************)
\* faulty variant: the ranks past the remainder start at rank * size
getLeafsRange_NoRem(n, p, rank) ==
    LET size == n \div p
        rem == n % p
    IN  IF rank < rem
        THEN <<rank * size + rank, rank * size + rank + size + 1>>
        ELSE <<rank * size, rank * size + size>>

\* the pair sub_start, sub_start + sub_len
getLeafsRange(n, p, rank) ==
    LET size == n \div p
        rem == n % p
        sub_len == IF rank < rem THEN size + 1 ELSE size
        sub_start == IF rank < rem THEN rank * size + rank
                     ELSE rank * size + rem
    IN  <<sub_start, sub_start + sub_len>>

\* the ranks of the communicator
Ranks(p) == 0 .. p - 1

\* rank calls getLeafsRange(n, p, rank)
GetRange(rank) ==
    /\ range[rank] = << >>
    /\ range' = [range EXCEPT ![rank] = getLeafsRange(gn, gp, rank)]
    /\ UNCHANGED <<nonAnn, mergevars, projvars, candvars, searchvars, gn, gp>>

NextRange == \E rank \in Ranks(gp) : GetRange(rank)

InitRange ==
    /\ gn \in 0 .. MaxChunks
    /\ gp \in 1 .. MaxRanks
    /\ range = [rank \in Ranks(gp) |-> << >>]

InitG == NoOther /\ NoMerge /\ InitRange /\ NoProj /\ NoCand /\ NoSearch

SpecRange == InitG /\ [][NextRange]_vars

\* the ranks that have their range
Called == {rank \in Ranks(gp) : range[rank] # << >>}

\* C22: the ranges [start, end) returned to the ranks 0 .. p-1 follow one
\* another without gap or overlap, the first starts at 0 and the last ends
\* at n, and each has floor(n/p) entries or one more, the first n mod p
\* ranks having one more.
C22_RangesPartition ==
    \A a \in Called :
       LET len == range[a][2] - range[a][1]
       IN  /\ len = (gn \div gp) + (IF a < gn % gp THEN 1 ELSE 0)
           /\ a = 0 => range[a][1] = 0
           /\ a = gp - 1 => range[a][2] = gn
           /\ \A b \in Called :
                 /\ b = a + 1 => range[b][1] = range[a][2]
                 /\ a < b => range[a][2] <= range[b][1]

\* every rank has its range, some ranks have one chunk more than others,
\* and there are at least three ranks; and there are more ranks than chunks
C22_Witness ==
    /\ Called = Ranks(gp)
    /\ gp >= 3
    /\ gn % gp # 0
    /\ \E a \in Called : range[a][1] = range[a][2]

(***************************************************************************)
(* construct_projection_tree_MPI as find_ann_candidates_MPI calls it, one  *)
(* call at a time, a node's first half and all below it before its second  *)
(* half.  The points of a node are ordered by their projection on a random *)
(* direction: as they are, or the other way round (the opposite direction).*)
(***************************************************************************)
\* faulty variant: every node of more than ann_number points is split
MinLeafSize_Ann(ann) == ann + 1

\* std::size_t min_leaf_size = 6 * ann_number
MinLeafSize(ann) == 6 * ann

\* int_t half_size = (int_t)cur_node_size / 2
HalfSize(size) == size \div 2

\* the node's range of cur_indices, in the order of the projections
Projected(start, size, flip) ==
    [i \in 1 .. Len(cur_indices) |->
       IF flip /\ i > start /\ i <= start + size
       THEN cur_indices[2 * start + size + 1 - i]
       ELSE cur_indices[i]]

\* the points of cur_indices[start .. start + size - 1]
NodePoints(start, size) == [i \in 1 .. size |-> cur_indices[start + i]]

\* cur_node_size < min_leaf_size: the node is recorded as a leaf
ProjLeaf ==
    /\ calls # << >>
    /\ LET call == Head(calls)
       IN  /\ call.size < min_leaf_size
           /\ leaf_sizes' = Append(leaf_sizes,
                                   call.size + leaf_sizes[Len(leaf_sizes)])
           /\ leaves' = leaves \o NodePoints(call.start, call.size)
           /\ calls' = Tail(calls)
    /\ UNCHANGED <<nonAnn, mergevars, rangevars, candvars, searchvars, jann,
                   min_leaf_size, cur_indices>>

\* otherwise: the median split and the two recursive calls
ProjSplit ==
    /\ calls # << >>
    /\ LET call == Head(calls)
           half_size == HalfSize(call.size)
       IN  /\ ~(call.size < min_leaf_size)
           /\ \E flip \in BOOLEAN :
                 cur_indices' = Projected(call.start, call.size, flip)
           /\ calls' = <<[start |-> call.start, size |-> half_size],
                         [start |-> call.start + half_size,
                          size |-> call.size - half_size]>> \o Tail(calls)
    /\ UNCHANGED <<nonAnn, mergevars, rangevars, candvars, searchvars, jann,
                   min_leaf_size, leaves, leaf_sizes>>

NextProj ==
    \/ ProjLeaf
    \/ ProjSplit

\* find_ann_candidates_MPI up to its call of construct_projection_tree_MPI,
\* for data of n points and neighbors of ann_number rows
InitProj ==
    \E n \in 1 .. MaxPts :
       /\ jann \in 1 .. n
       /\ min_leaf_size = MinLeafSize(jann)
       /\ cur_indices = [i \in 1 .. n |-> i - 1]
       /\ leaves = << >>
       /\ leaf_sizes = <<0>>
       /\ calls = <<[start |-> 0, size |-> n]>>

InitJ == NoOther /\ NoMerge /\ NoRange /\ InitProj /\ NoCand /\ NoSearch

\* the calling thread runs the recursion on
SpecProj == InitJ /\ [][NextProj]_vars /\ WF_vars(NextProj)

\* the leaves recorded
Leafs == 1 .. Len(leaf_sizes) - 1

\* the positions of leaves that idx[j], j < ann_number, selects in a leaf
Selected(leaf) == {leaf_sizes[leaf] + j : j \in 0 .. jann - 1}

\* C29: for 1 <= ann_number <= n and min_leaf_size = 6 * ann_number, every
\* leaf recorded holds at least ann_number points, so the ann_number
\* nearest points selected in a leaf are points of that leaf, and the
\* recursion comes to its end.
C29_LeavesHoldAnnNumber ==
    /\ [](\A leaf \in Leafs :
            /\ leaf_sizes[leaf + 1] - leaf_sizes[leaf] >= jann
            /\ \A pos \in Selected(leaf) :
                  pos >= leaf_sizes[leaf] /\ pos < leaf_sizes[leaf + 1])
    /\ <>(calls = << >>)

\* a tree of four leaves, one of them of 3 * ann_number points, is complete
\* and every point is in one leaf
C29_Witness ==
    /\ calls = << >>
    /\ Len(leaf_sizes) = 5
    /\ \E leaf \in Leafs : leaf_sizes[leaf + 1] - leaf_sizes[leaf] = 3 * jann
    /\ \A pt \in 0 .. Len(cur_indices) - 1 :
          Cardinality({i \in 1 .. Len(leaves) : leaves[i] = pt}) = 1
    /\ cur_indices[1] # 0

(***************************************************************************)
(* find_ann_candidates_MPI on the ranks of a communicator: the projection  *)
(* tree, which every rank builds from the same data with a generator in    *)
(* the same state and which is therefore built once here, and then         *)
(* find_neighbors_in_tree_MPI rank by rank.  neighbors and scores are zero *)
(* on entry, as find_approximate_neighbors_MPI leaves them.  An            *)
(* MPI_Allreduce completes for all ranks at once, when all are in it.      *)
(***************************************************************************)
\* int number_leafs = static_cast<int>(leaf_sizes.size())-1
number_leafs == Len(leaf_sizes) - 1

\* data.cols()
NPoints == Len(cur_indices)

\* cur_leaf_size of leaf number lf, counted from 0
LeafSize(lf) == leaf_sizes[lf + 2] - leaf_sizes[lf + 1]

\* index_subset
index_subset(lf) == [i \in 1 .. LeafSize(lf) |-> leaves[leaf_sizes[lf + 1] + i]]

\* the data: point pt lies at the coordinate pt of a line
Euclidean_distance_squared(a, b) == (a - b) * (a - b)

\* std::partial_sort of idx by leaf_dists(i, .): position a of the leaf comes
\* before position b
Nearer(sub, i, a, b) ==
    LET da == Euclidean_distance_squared(sub[i], sub[a])
        db == Euclidean_distance_squared(sub[i], sub[b])
    IN  da < db \/ (da = db /\ a < b)

\* idx[j] after the partial sort, j counted from 0
SortedIdx(sub, i, j) ==
    CHOOSE a \in 1 .. Len(sub) :
       Cardinality({b \in 1 .. Len(sub) : Nearer(sub, i, b, a)}) = j

\* the leaf of point pt
LeafOf(pt) ==
    CHOOSE lf \in 0 .. number_leafs - 1 :
       \E i \in 1 .. LeafSize(lf) : index_subset(lf)[i] = pt

\* the position of point pt in its leaf
PlaceOf(pt) ==
    CHOOSE i \in 1 .. LeafSize(LeafOf(pt)) : index_subset(LeafOf(pt))[i] = pt

\* neighbors(j, pt) and scores(j, pt) as the loop body leaves them
NeighbourOf(pt, j) ==
    LET sub == index_subset(LeafOf(pt))
    IN  sub[SortedIdx(sub, PlaceOf(pt), j)]

ScoreOf(pt, j) == Euclidean_distance_squared(pt, NeighbourOf(pt, j))

\* point pt is one of index_subset of leaf lf, whose columns the loop body
\* writes
InLeaf(lf, pt) == \E i \in 1 .. LeafSize(lf) : index_subset(lf)[i] = pt

\* faulty variant: the loop runs to leafRange[1] included
LeafLoopTest_Closed(leaf, rng) == leaf <= rng[2] /\ leaf < number_leafs

\* leaf < leafRange[1]
LeafLoopTest(leaf, rng) == leaf < rng[2]

\* the rank gets its range of leaves
CandRange(r) ==
    /\ calls = << >>
    /\ cpc[r] = "tree"
    /\ leafRange' = [leafRange EXCEPT
                       ![r] = getLeafsRange(number_leafs, nranks, r)]
    /\ cleaf' = [cleaf EXCEPT
                   ![r] = getLeafsRange(number_leafs, nranks, r)[1]]
    /\ cpc' = [cpc EXCEPT ![r] = "loop"]
    /\ UNCHANGED <<nonAnn, mergevars, rangevars, projvars, searchvars, nranks,
                   rank_neighbors, rank_scores, local_neighbors_reduced,
                   local_scores_reduced, processed>>

\* one leaf of the rank's range
CandLeaf(r) ==
    /\ cpc[r] = "loop"
    /\ LeafLoopTest(cleaf[r], leafRange[r])
    /\ rank_neighbors' =
          [rank_neighbors EXCEPT ![r] =
              [p \in DOMAIN rank_neighbors[r] |->
                  IF InLeaf(cleaf[r], p[2]) THEN NeighbourOf(p[2], p[1])
                  ELSE rank_neighbors[r][p]]]
    /\ rank_scores' =
          [rank_scores EXCEPT ![r] =
              [p \in DOMAIN rank_scores[r] |->
                  IF InLeaf(cleaf[r], p[2]) THEN ScoreOf(p[2], p[1])
                  ELSE rank_scores[r][p]]]
    /\ processed' = [processed EXCEPT ![r] = @ \cup {cleaf[r]}]
    /\ cleaf' = [cleaf EXCEPT ![r] = @ + 1]
    /\ UNCHANGED <<nonAnn, mergevars, rangevars, projvars, searchvars, nranks, cpc,
                   leafRange, local_neighbors_reduced, local_scores_reduced>>

\* the loop is left and the rank calls the first MPI_Allreduce
CandLoopEnd(r) ==
    /\ cpc[r] = "loop"
    /\ ~LeafLoopTest(cleaf[r], leafRange[r])
    /\ cpc' = [cpc EXCEPT ![r] = "ar1"]
    /\ UNCHANGED <<nonAnn, mergevars, rangevars, projvars, searchvars, nranks, leafRange,
                   cleaf, rank_neighbors, rank_scores,
                   local_neighbors_reduced, local_scores_reduced, processed>>

\* MPI_SUM over the ranks, entry by entry
AllSum(M) ==
    [p \in DOMAIN M[0] |-> SumOver(Ranks(nranks), [r \in Ranks(nranks) |-> M[r][p]])]

\* MPI_Allreduce of scores into local_scores_reduced
AllreduceScores ==
    /\ nranks > 0
    /\ \A r \in Ranks(nranks) : cpc[r] = "ar1"
    /\ local_scores_reduced' = [r \in Ranks(nranks) |-> AllSum(rank_scores)]
    /\ cpc' = [r \in Ranks(nranks) |-> "ar2"]
    /\ UNCHANGED <<nonAnn, mergevars, rangevars, projvars, searchvars, nranks, leafRange,
                   cleaf, rank_neighbors, rank_scores,
                   local_neighbors_reduced, processed>>

\* MPI_Allreduce of neighbors into local_neighbors_reduced
AllreduceNeighbors ==
    /\ nranks > 0
    /\ \A r \in Ranks(nranks) : cpc[r] = "ar2"
    /\ local_neighbors_reduced' =
          [r \in Ranks(nranks) |-> AllSum(rank_neighbors)]
    /\ cpc' = [r \in Ranks(nranks) |-> "copy"]
    /\ UNCHANGED <<nonAnn, mergevars, rangevars, projvars, searchvars, nranks, leafRange,
                   cleaf, rank_neighbors, rank_scores, local_scores_reduced,
                   processed>>

\* scores = local_scores_reduced; neighbors = local_neighbors_reduced
CandCopy(r) ==
    /\ cpc[r] = "copy"
    /\ rank_scores' = [rank_scores EXCEPT ![r] = local_scores_reduced[r]]
    /\ rank_neighbors' = [rank_neighbors EXCEPT
                            ![r] = local_neighbors_reduced[r]]
    /\ cpc' = [cpc EXCEPT ![r] = "done"]
    /\ UNCHANGED <<nonAnn, mergevars, rangevars, projvars, searchvars, nranks, leafRange,
                   cleaf, local_neighbors_reduced, local_scores_reduced,
                   processed>>

NextCand ==
    \/ ProjLeaf
    \/ ProjSplit
    \/ \E r \in Ranks(nranks) : CandRange(r)
    \/ \E r \in Ranks(nranks) : CandLeaf(r)
    \/ \E r \in Ranks(nranks) : CandLoopEnd(r)
    \/ AllreduceScores
    \/ AllreduceNeighbors
    \/ \E r \in Ranks(nranks) : CandCopy(r)

InitCand ==
    /\ InitProj
    /\ NPoints <= MaxCandPts
    /\ jann <= MaxAnn
    /\ nranks \in 1 .. MaxCandRanks
    /\ cpc = [r \in Ranks(nranks) |-> "tree"]
    /\ leafRange = [r \in Ranks(nranks) |-> << >>]
    /\ cleaf = [r \in Ranks(nranks) |-> 0]
    /\ rank_neighbors = [r \in Ranks(nranks) |-> ZeroMatrix(jann, NPoints)]
    /\ rank_scores = [r \in Ranks(nranks) |-> ZeroMatrix(jann, NPoints)]
    /\ local_neighbors_reduced =
          [r \in Ranks(nranks) |-> ZeroMatrix(jann, NPoints)]
    /\ local_scores_reduced =
          [r \in Ranks(nranks) |-> ZeroMatrix(jann, NPoints)]
    /\ processed = [r \in Ranks(nranks) |-> {}]

InitC == NoOther /\ NoMerge /\ NoRange /\ InitCand /\ NoSearch

SpecCand == InitC /\ [][NextCand]_vars

\* the ranks that have left the loop over their leaves
PastLoop == {r \in Ranks(nranks) : cpc[r] \in {"ar1", "ar2", "copy", "done"}}

\* C28: with neighbors and scores zero on entry on every rank, every leaf of
\* the projection tree is processed by one rank and no other, also with
\* more ranks than leaves, every point lies in one leaf and no other, and a
\* rank that has returned holds for every point the neighbour ids and
\* scores that the loop body computes from the point's leaf.
C28_EveryRankHoldsTheColumns ==
    /\ PastLoop = Ranks(nranks) /\ nranks > 0 =>
          /\ \A lf \in 0 .. number_leafs - 1 :
                Cardinality({r \in Ranks(nranks) : lf \in processed[r]}) = 1
          /\ \A pt \in 0 .. NPoints - 1 :
                Cardinality({lf \in 0 .. number_leafs - 1 :
                               \E i \in 1 .. LeafSize(lf) :
                                  index_subset(lf)[i] = pt}) = 1
    /\ \A r \in Ranks(nranks) :
          cpc[r] = "done" =>
             \A p \in Idx(jann, NPoints) :
                /\ rank_neighbors[r][p] = NeighbourOf(p[2], p[1])
                /\ rank_scores[r][p] = ScoreOf(p[2], p[1])

\* three ranks have returned from a tree of two leaves, one rank having had
\* no leaf, and the points were reordered by a split
C28_Witness ==
    /\ nranks = 3
    /\ number_leafs = 2
    /\ \A r \in Ranks(nranks) : cpc[r] = "done"
    /\ \E r \in Ranks(nranks) : processed[r] = {}
    /\ cur_indices[1] # 0

(***************************************************************************)
(* find_approximate_neighbors_MPI on the ranks of a communicator, with the *)
(* same data, num_iters and ann_number and a generator in the same state   *)
(* on every rank.  A round is one find_ann_candidates_MPI call: local work *)
(* and the two MPI_Allreduce calls of find_neighbors_in_tree_MPI.  The     *)
(* k-th collective call of a rank completes when every rank has made its   *)
(* k-th collective call.  Quality is kept as low (< 0.99) or high.         *)
(***************************************************************************)
Qualities == {"low", "high"}

\* the most rounds a call can make
MaxRounds == Max(1, MaxIters)

\* check_quality_MPI draws its samples with uni_int(0, n), n included: a
\* sample n reads data(., n), neighbors(., n), one column past the end of
\* both, and the quality is computed from what lies there
QualityRead(k) == IF draws[k].past_end THEN Qualities ELSE {draws[k].quality}

\* the rank starts a round and calls the first MPI_Allreduce of it
SearchCand(r) ==
    /\ spc[r] = "cand"
    /\ rounds' = [rounds EXCEPT ![r] = @ + 1]
    /\ spc' = [spc EXCEPT ![r] = "ar1"]
    /\ UNCHANGED <<nonAnn, mergevars, rangevars, projvars, candvars, sranks,
                   num_iters, draws, iter, quality>>

\* every rank is in the call: all leave it together
SearchAllreduce ==
    /\ sranks > 0
    /\ \/ /\ \A r \in Ranks(sranks) : spc[r] = "ar1"
          /\ spc' = [r \in Ranks(sranks) |-> "ar2"]
       \/ /\ \A r \in Ranks(sranks) : spc[r] = "ar2"
          /\ spc' = [r \in Ranks(sranks) |-> "quality"]
    /\ UNCHANGED <<nonAnn, mergevars, rangevars, projvars, candvars, sranks,
                   num_iters, draws, iter, rounds, quality>>

\* choose_best_neighbors_MPI after the first round, then
\* quality = check_quality_MPI(data, neighbors, generator)
SearchQuality(r) ==
    /\ spc[r] = "quality"
    /\ \E q \in QualityRead(rounds[r]) :
          quality' = [quality EXCEPT ![r] = Append(@, q)]
    /\ spc' = [spc EXCEPT ![r] = "test"]
    /\ UNCHANGED <<nonAnn, mergevars, rangevars, projvars, candvars, sranks,
                   num_iters, draws, iter, rounds>>

\* while (quality < 0.99 && iter++ < num_iters)
SearchTest(r) ==
    /\ spc[r] = "test"
    /\ LET low == quality[r][Len(quality[r])] = "low"
       IN  /\ iter' = [iter EXCEPT ![r] = IF low THEN @ + 1 ELSE @]
           /\ spc' = [spc EXCEPT ![r] = IF low /\ iter[r] < num_iters
                                        THEN "cand" ELSE "done"]
    /\ UNCHANGED <<nonAnn, mergevars, rangevars, projvars, candvars, sranks,
                   num_iters, draws, rounds, quality>>

NextSearch ==
    \/ \E r \in Ranks(sranks) : SearchCand(r)
    \/ SearchAllreduce
    \/ \E r \in Ranks(sranks) : SearchQuality(r)
    \/ \E r \in Ranks(sranks) : SearchTest(r)

InitSearch ==
    /\ sranks \in 1 .. MaxCandRanks
    /\ num_iters \in 0 .. MaxIters
    /\ draws \in [1 .. MaxRounds ->
                    [past_end : BOOLEAN, quality : Qualities]]
    /\ spc = [r \in Ranks(sranks) |-> "cand"]
    /\ iter = [r \in Ranks(sranks) |-> 1]
    /\ rounds = [r \in Ranks(sranks) |-> 0]
    /\ quality = [r \in Ranks(sranks) |-> << >>]

InitS == NoOther /\ NoMerge /\ NoRange /\ NoProj /\ NoCand /\ InitSearch

SpecSearch == InitS /\ [][NextSearch]_vars

\* C24: with identical data, num_iters, ann_number and generators on all
\* ranks, every rank computes the same quality in every round and makes the
\* same number of rounds, at most max(1, num_iters); no rank waits in an
\* MPI_Allreduce that another rank, having returned, never enters.
C24_SameRoundsOnEveryRank ==
    \A a, b \in Ranks(sranks) :
       /\ rounds[a] <= Max(1, num_iters)
       /\ \A k \in 1 .. Min(Len(quality[a]), Len(quality[b])) :
             quality[a][k] = quality[b][k]
       /\ (spc[a] = "done" /\ spc[b] = "done") => rounds[a] = rounds[b]
       /\ ~(spc[a] \in {"ar1", "ar2"} /\ spc[b] = "done")

(***************************************************************************)
(* dense() and dense_recursive of src/HSS/HSSMatrix.hpp.  A call of a node *)
(* forks the calls of its two children, waits for them, forks the tasks    *)
(* that write its two off-diagonal blocks and, below the root, its tmpU    *)
(* and tmpV, waits for them and clears the children's tmpU and tmpV.  A    *)
(* task forked at a depth below the cutoff runs whenever a thread takes it *)
(* up; at the cutoff and beyond, and outside a parallel region, which is   *)
(* the case cutoff = 0, the forking thread runs it on the spot.            *)
(***************************************************************************)
\* the nodes of HSSMatrix(m, n, opts) below and including nd, and their
\* rows and cols
RECURSIVE DenseTree(_, _, _, _)
DenseTree(nd, m, n, leaf) ==
    IF Split(m, n, leaf)
    THEN (nd :> [rows |-> m, cols |-> n])
         @@ DenseTree(2*nd, ChildDims(m, n, 0).rows,
                      ChildDims(m, n, 0).cols, leaf)
         @@ DenseTree(2*nd + 1, ChildDims(m, n, 1).rows,
                      ChildDims(m, n, 1).cols, leaf)
    ELSE (nd :> [rows |-> m, cols |-> n])

DNodes == DOMAIN dnodes

\* this->leaf()
DLeaf(nd) == (2*nd) \notin DNodes

\* the tasks of lines 301-363
Tasks == {"A01", "A10", "tmpU", "tmpV"}

\* the tasks forked before task t
Earlier(t) ==
    CASE t = "A01" -> {}
      [] t = "A10" -> {"A01"}
      [] t = "tmpU" -> {"A01", "A10"}
      [] t = "tmpV" -> {"A01", "A10", "tmpU"}

\* if(depth < params::task_recursion_cutoff_level)
Deferred(nd) == ddepth[nd] < cutoff

\* the rows r0 .. r0+nr-1 and columns c0 .. c0+nc-1 of A
Block(r0, nr, c0, nc) == (r0 .. r0 + nr - 1) \X (c0 .. c0 + nc - 1)

\* the entries of A a leaf (b = "D") or a task of a node writes
Writes(nd, b) ==
    CASE b = "D" ->
            Block(offset[nd].first, dnodes[nd].rows,
                  offset[nd].second, dnodes[nd].cols)
      [] b = "A01" ->
            Block(offset[2*nd].first, dnodes[2*nd].rows,
                  offset[2*nd + 1].second, dnodes[2*nd + 1].cols)
      [] b = "A10" ->
            Block(offset[2*nd + 1].first, dnodes[2*nd + 1].rows,
                  offset[2*nd].second, dnodes[2*nd].cols)
      [] OTHER -> {}

\* the children's tmpU and tmpV a task reads: <<child, "U" or "V">>
Reads(nd, t) ==
    CASE t = "A01" -> {<<2*nd, "U">>, <<2*nd + 1, "V">>}
      [] t = "A10" -> {<<2*nd + 1, "U">>, <<2*nd, "V">>}
      [] t = "tmpU" -> {<<2*nd, "U">>, <<2*nd + 1, "U">>}
      [] t = "tmpV" -> {<<2*nd, "V">>, <<2*nd + 1, "V">>}

\* A with the entries of S assigned by block b of node nd
Assigned(S, nd, b) ==
    [e \in DOMAIN A |-> IF e \in S THEN Append(A[e], <<nd, b>>) ELSE A[e]]

\* the call of the node may start: the thread that runs a call that is not
\* deferred runs the first child's before the second child's
MayCall(nd) ==
    IF nd = 1 \/ nd % 2 = 0 THEN TRUE
    ELSE Deferred(HParent(nd)) \/ dpc[nd - 1] = "done"

\* faulty variant: no taskwait after the calls of the children
ChildrenDone_NoWait(nd) == TRUE

\* the taskwait of line 299
ChildrenDone(nd) == dpc[2*nd] = "done" /\ dpc[2*nd + 1] = "done"

\* the taskwait of line 365
TasksDone(nd) == \A t \in Tasks : dtask[nd][t] \in {"none", "done"}

\* lines 283 and 288-298: the call starts; a leaf starts copying, another
\* node sets the offsets of its children and forks their calls
DenseCall(nd) ==
    /\ dpc[nd] = "ready"
    /\ MayCall(nd)
    /\ IF DLeaf(nd)
       THEN /\ dpc' = [dpc EXCEPT ![nd] = "leaf"]
            /\ UNCHANGED <<offset, ddepth>>
       ELSE /\ offset' =
                 [offset EXCEPT
                    ![2*nd] = offset[nd],
                    ![2*nd + 1] =
                       [first |-> offset[nd].first + dnodes[2*nd].rows,
                        second |-> offset[nd].second + dnodes[2*nd].cols]]
            /\ ddepth' = [ddepth EXCEPT ![2*nd] = ddepth[nd] + 1,
                                        ![2*nd + 1] = ddepth[nd] + 1]
            /\ dpc' = [dpc EXCEPT ![nd] = "wait1", ![2*nd] = "ready",
                                  ![2*nd + 1] = "ready"]
    /\ UNCHANGED <<nonDense, dnodes, dtask, A, tmpU, tmpV>>

\* lines 284-286: the leaf has copied _D and set tmpU and tmpV
DenseLeaf(nd) ==
    /\ dpc[nd] = "leaf"
    /\ A' = Assigned(Writes(nd, "D"), nd, "D")
    /\ tmpU' = [tmpU EXCEPT ![nd] = "set"]
    /\ tmpV' = [tmpV EXCEPT ![nd] = "set"]
    /\ dpc' = [dpc EXCEPT ![nd] = "done"]
    /\ UNCHANGED <<nonDense, dnodes, ddepth, offset, dtask>>

\* lines 299-363: past the taskwait the node forks its tasks
DenseFork(nd) ==
    /\ dpc[nd] = "wait1"
    /\ ChildrenDone(nd)
    /\ dtask' = [dtask EXCEPT ![nd] =
                    [t \in Tasks |->
                        IF t \in {"tmpU", "tmpV"} /\ nd = 1 THEN "none"
                        ELSE "ready"]]
    /\ dpc' = [dpc EXCEPT ![nd] = "wait2"]
    /\ UNCHANGED <<nonDense, dnodes, ddepth, offset, A, tmpU, tmpV>>

\* a task starts; the thread that runs tasks that are not deferred runs
\* them in the order of the text
TaskStart(nd, t) ==
    /\ dtask[nd][t] = "ready"
    /\ Deferred(nd) \/ \A u \in Earlier(t) : dtask[nd][u] \in {"none", "done"}
    /\ dtask' = [dtask EXCEPT ![nd][t] = "run"]
    /\ UNCHANGED <<nonDense, dnodes, ddepth, offset, dpc, A, tmpU, tmpV>>

\* a task ends: it has written its block of A, or the node's tmpU or tmpV
TaskEnd(nd, t) ==
    /\ dtask[nd][t] = "run"
    /\ dtask' = [dtask EXCEPT ![nd][t] = "done"]
    /\ A' = Assigned(Writes(nd, t), nd, t)
    /\ tmpU' = IF t = "tmpU" THEN [tmpU EXCEPT ![nd] = "set"] ELSE tmpU
    /\ tmpV' = IF t = "tmpV" THEN [tmpV EXCEPT ![nd] = "set"] ELSE tmpV
    /\ UNCHANGED <<nonDense, dnodes, ddepth, offset, dpc>>

\* lines 365-369: past the taskwait the node clears its children's tmpU
\* and tmpV and returns
DenseReturn(nd) ==
    /\ dpc[nd] = "wait2"
    /\ TasksDone(nd)
    /\ tmpU' = [tmpU EXCEPT ![2*nd] = "clear", ![2*nd + 1] = "clear"]
    /\ tmpV' = [tmpV EXCEPT ![2*nd] = "clear", ![2*nd + 1] = "clear"]
    /\ dpc' = [dpc EXCEPT ![nd] = "done"]
    /\ UNCHANGED <<nonDense, dnodes, ddepth, offset, dtask, A>>

NextDense ==
    \E nd \in DNodes :
       \/ DenseCall(nd)
       \/ DenseLeaf(nd)
       \/ DenseFork(nd)
       \/ \E t \in Tasks : TaskStart(nd, t)
       \/ \E t \in Tasks : TaskEnd(nd, t)
       \/ DenseReturn(nd)

\* dense(): A of rows() x cols(), a WorkDense with offset (0, 0), and the
\* call of the root with the depth of the matrix
InitDense ==
    \E m \in 0 .. MaxDenseDim, n \in 0 .. MaxDenseDim, leaf \in 1 .. MaxLeaf,
       d \in 0 .. MaxRootDepth :
       /\ dnodes = DenseTree(1, m, n, leaf)
       /\ Cardinality(DNodes) <= MaxNodes
       /\ ddepth = [nd \in DNodes |-> IF nd = 1 THEN d ELSE -1]
       /\ offset = [nd \in DNodes |-> [first |-> 0, second |-> 0]]
       /\ dpc = [nd \in DNodes |-> IF nd = 1 THEN "ready" ELSE "none"]
       /\ dtask = [nd \in DNodes |-> [t \in Tasks |-> "none"]]
       /\ A = [e \in Block(0, m, 0, n) |-> << >>]
       /\ tmpU = [nd \in DNodes |-> "empty"]
       /\ tmpV = [nd \in DNodes |-> "empty"]

InitD ==
    /\ NoMF /\ cutoff \in 0 .. MaxCutoff /\ NoHSS /\ NoTree /\ NoPiv
    /\ NoKer /\ NoAnn /\ InitDense

SpecDense == InitD /\ [][NextDense]_vars

\* the leaves to the left of node nd: at some node they are below the
\* first child and nd is the second child or below it
RECURSIVE Below(_, _)
Below(nd, a) == nd = a \/ (nd > a /\ Below(HParent(nd), a))

LeftOf(nd) ==
    {l \in DNodes : DLeaf(l) /\ \E a \in DNodes :
                       Below(l, 2*a) /\ Below(nd, 2*a + 1)}

\* the rows and the columns of the leaves to the left of node nd
CumRows(nd) == SumOver(LeftOf(nd), [l \in LeftOf(nd) |-> dnodes[l].rows])

CumCols(nd) == SumOver(LeftOf(nd), [l \in LeftOf(nd) |-> dnodes[l].cols])

\* the writers running: leaves copying and tasks started and not ended
Writers ==
    {<<nd, "D">> : nd \in {x \in DNodes : dpc[x] = "leaf"}}
    \cup {u \in DNodes \X Tasks : dtask[u[1]][u[2]] = "run"}

\* C21: no entry of A is assigned twice, and when dense() returns every
\* entry has been assigned once: the diagonal block at the rows and columns
\* of the leaves to its left by each leaf, the block (child 0 rows, child 1
\* cols) and the block (child 1 rows, child 0 cols) by each other node; no
\* two writers running at the same time write the same entry; a task that
\* reads the children's tmpU and tmpV runs when both children's calls are
\* done and the tmpU and tmpV are set; tmpU and tmpV of a child are cleared
\* when none of the parent's tasks is still to run or running.
C21_EveryEntryAssignedOnce ==
    /\ \A e \in DOMAIN A : Len(A[e]) <= 1
    /\ dpc[1] = "done" =>
          /\ \A e \in DOMAIN A : Len(A[e]) = 1
          /\ \A nd \in DNodes :
                IF DLeaf(nd)
                THEN \A e \in Block(CumRows(nd), dnodes[nd].rows,
                                    CumCols(nd), dnodes[nd].cols) :
                        A[e] = << <<nd, "D">> >>
                ELSE /\ \A e \in Block(CumRows(2*nd), dnodes[2*nd].rows,
                                       CumCols(2*nd + 1),
                                       dnodes[2*nd + 1].cols) :
                           A[e] = << <<nd, "A01">> >>
                     /\ \A e \in Block(CumRows(2*nd + 1),
                                       dnodes[2*nd + 1].rows,
                                       CumCols(2*nd), dnodes[2*nd].cols) :
                           A[e] = << <<nd, "A10">> >>
    /\ \A u \in Writers, v \in Writers :
          u # v => Writes(u[1], u[2]) \cap Writes(v[1], v[2]) = {}
    /\ \A nd \in DNodes, t \in Tasks :
          dtask[nd][t] = "run" =>
             /\ dpc[2*nd] = "done" /\ dpc[2*nd + 1] = "done"
             /\ \A r \in Reads(nd, t) :
                   IF r[2] = "U" THEN tmpU[r[1]] = "set"
                   ELSE tmpV[r[1]] = "set"
    /\ \A nd \in DNodes \ {1} :
          (tmpU[nd] = "clear" \/ tmpV[nd] = "clear") =>
             \A t \in Tasks :
                \/ dtask[HParent(nd)][t] = "done"
                \/ HParent(nd) = 1 /\ t \in {"tmpU", "tmpV"}

\* a leaf is copying its _D while a task of another node writes its block
\* and a third writer runs: three writers at the same time
C21_Witness ==
    /\ \E nd \in DNodes : dpc[nd] = "leaf"
    /\ \E nd \in DNodes : dtask[nd]["A01"] = "run" /\ dtask[nd]["A10"] = "run"

=============================================================================
